---- MODULE Spec2Model ----
(***************************************************************************)
(* Model of the two library scripts of hoanganhduc/library:                *)
(*   src/calibre/list-calibre-collection.py  (Calibre catalogue)           *)
(*   src/zotero/list-zotero-collection.py    (Zotero library)              *)
(*                                                                         *)
(* The scripts are sequential glue around a few components, each modelled  *)
(* here by its own specification over one set of variables:                *)
(*   SpecRender  - the Report Renderer (parallel formatting, reassembly)   *)
(*   SpecLocate  - the Source Locator (local db, Drive copy, remote API)   *)
(*   SpecResolve - the Attachment Resolver (Drive lookup per attachment)   *)
(*   SpecMail    - the Selector/Mailer: Calibre's email mode with its      *)
(*                 sent-log file, Zotero's random-paper email mode         *)
(*   SpecFilter  - the tag filter of Calibre's main                        *)
(*   SpecCompose - the message built for a record's attachments            *)
(*   SpecRace    - two concurrent invocations of Calibre's random mode     *)
(*   SpecAttach  - the origin of Zotero's attachments (local db or API)    *)
(*   SpecName    - the file name of a Calibre format row                   *)
(*   SpecPaging  - the paging loop of search_file_in_drive                 *)
(* A variable a specification does not use keeps its initial value.        *)
(***************************************************************************)
EXTENDS Integers, Sequences, FiniteSets, TLC

(***************************************************************************)
(* Bounds of the model.                                                    *)
(***************************************************************************)
MaxBooks == 3
MaxAttachments == 2

VARIABLES
    script,           \* "calibre" | "zotero": which of the two scripts runs
    output_format,    \* args.output_format: "text" | "html" | "pdf"
    books,            \* the records handed to the renderer, in fetch order
    submitted,        \* number of tasks submitted to the ThreadPoolExecutor
    future,           \* future[i]: "pending" | "done", the state of task i
    future_result,    \* future_result[i]: what task i returned (or raised)
    formatted_books,  \* list of (idx, fragment) in as_completed order
    output,           \* the assembled report: header lines, then fragments
    rpc,              \* position of the renderer / display_books
    exit_code,        \* the process exit code (0 unless sys.exit(1) is reached)
    func,             \* the Source Locator entry point that runs
    local_db,         \* local_db[p]: state of the p-th candidate local database
    google_creds,     \* TRUE when Drive credentials are configured (truthy)
    drive_db,         \* what the Drive lookup of the database file meets
    api_state,        \* what the remote Zotero API answers
    queried,          \* the sources queried so far, in order
    opened,           \* the local database paths opened so far, in order
    src_result,       \* src_result[s]: the records source s returned
    loc_result,       \* the records the locator returned
    loc_exc,          \* the exception that left the locator, "none" if none
    lpc,              \* position of the Source Locator
    attachments,      \* the record's attachments and what Drive holds for each
    attachment_info,  \* the descriptors get_attachment_paths has built so far
    search_log,       \* search_log[i]: outcomes of the Drive searches for i
    apc,              \* position of the Attachment Resolver
    library,          \* the records of the catalogue, as list_calibre_books returns them
    sent_file,        \* sent_books.txt: whether it exists, and its characters
    args,             \* the command line of the current invocation
    selected_books,   \* the records selected for sending
    send_idx,         \* number of (record, recipient) pairs already attempted
    sends,            \* the send attempts of the current invocation
    picked,           \* identifiers chosen at random by earlier invocations
    emailed,          \* identifiers delivered by earlier invocations
    sent_at_start,    \* the sent-log identifiers when the invocation started
    mpc,              \* position of the Selector/Mailer
    drive_files,      \* the descriptors get_attachment_paths gave the mailer
    email_body,       \* Zotero's --email-body: "default" | "custom"
    msg,              \* the message built: its binary parts and body links
    cpc,              \* position of the message composer
    send_opts,        \* Zotero: whether papers were found, delete_after_send
    disk,             \* the downloaded temporary files still on disk
    relay_accepted,   \* whether the mail relay accepted the message
    result,           \* what the send function returned: "none" before it
                      \* ends, "True", "False" or "raised"
    book_tags,        \* book_tags[i]: the tag names of library[i], as stored
    filtered_books,   \* main's `books` after the tag filter
    fpc,              \* position of the tag filter
    pdf,              \* whether the PDF conversion raised, and whether
                      \* "PDF output saved to ..." was printed
    procs,            \* concurrent invocations of Calibre's random mode
    appends,          \* per line of the sent-log: how many lines its writer
                      \* had read
    drive_pages,      \* the pages Drive answers the paged query with, in
                      \* the order of its nextPageToken chain
    shared_files,     \* what Drive answers the sharedWithMe query with
    search_params,    \* max_results, include_shared, whether a folder was found
    search_results,   \* search_file_in_drive's `results`
    page_token,       \* search_file_in_drive's `page_token`
    requests,         \* how many pages were requested
    spc               \* position of search_file_in_drive

renderVars == <<output_format, books, submitted, future, future_result,
                formatted_books, output, rpc>>

locateVars == <<func, local_db, drive_db, api_state, queried, opened,
                src_result, loc_result, loc_exc, lpc>>

resolveVars == <<attachments, attachment_info, search_log, apc>>

mailVars == <<library, sent_file, args, selected_books, send_idx, sends, picked,
              emailed, sent_at_start, mpc>>

composeVars == <<drive_files, email_body, msg, cpc, send_opts, disk, relay_accepted, result>>

filterVars == <<book_tags, filtered_books, fpc>>

raceVars == <<procs, appends>>

pagingVars == <<drive_pages, shared_files, search_params, search_results, page_token,
                requests, spc>>

nonRenderVars == <<raceVars, pagingVars, google_creds, locateVars, resolveVars, mailVars, composeVars, filterVars>>

nonLocateVars == <<raceVars, pagingVars, pdf, renderVars, resolveVars, mailVars, composeVars, filterVars>>

nonResolveVars == <<raceVars, pagingVars, pdf, exit_code, renderVars, locateVars, mailVars, composeVars, filterVars>>

nonMailVars == <<raceVars, pagingVars, pdf, renderVars, locateVars, resolveVars, composeVars, filterVars>>

nonComposeVars == <<raceVars, pagingVars, pdf, renderVars, locateVars, resolveVars, mailVars, filterVars>>

nonFilterVars == <<raceVars, pagingVars, pdf, renderVars, locateVars, resolveVars, composeVars>>

vars == <<script, exit_code, google_creds, renderVars, locateVars, resolveVars, mailVars,
          composeVars, filterVars, pdf, raceVars, pagingVars>>

Scripts == {"calibre", "zotero"}
OutputFormats == {"text", "html", "pdf"}

(***************************************************************************)
(* Records.  A record has an identifier and, for the renderer, a flag that *)
(* says whether format_book_text / format_book_html raises on it.          *)
(***************************************************************************)
\* The identifier of the i-th fetched record: distinct from its position.
LibraryId(i) == 10 * i + 1

NoFragment == [kind |-> "none", number |-> 0, content |-> 0]

\* format_book_text / format_book_html / format_item_text / format_item_html:
\* the rendering of one record's fields, identified by the record.
FormatRecord(book) == book.id

\* format_single_book / format_single_item: the fragment of record `book`
\* submitted with index idx (0-based); a formatting exception is caught in the
\* task and replaced by the "Error formatting ..." placeholder.
\* A task that returns nothing for a record it cannot format.
FormatSingleMutNoPlaceholder(idx, book) ==
    IF book.fails
    THEN NoFragment
    ELSE [kind |-> "item", number |-> idx + 1, content |-> FormatRecord(book)]

FormatSingle(idx, book) ==
    IF book.fails
    THEN [kind |-> "error", number |-> idx + 1, content |-> 0]
    ELSE [kind |-> "item", number |-> idx + 1, content |-> FormatRecord(book)]

\* `try: future.result() except Exception`: an exception stored in the future
\* becomes the "Error processing ..." placeholder of that index.
FutureResult(idx, res) ==
    IF res.kind = "raised"
    THEN [kind |-> "error", number |-> idx + 1, content |-> 0]
    ELSE res

\* formatted_books.sort(key=lambda x: x[0]): a stable insertion by index.
RECURSIVE InsertByIdx(_, _)
InsertByIdx(pair, sorted) ==
    IF sorted = <<>> THEN <<pair>>
    ELSE IF pair[1] < Head(sorted)[1] THEN <<pair>> \o sorted
    ELSE <<Head(sorted)>> \o InsertByIdx(pair, Tail(sorted))

RECURSIVE SortByIdxRec(_, _)
SortByIdxRec(pairs, acc) ==
    IF pairs = <<>> THEN acc
    ELSE SortByIdxRec(Tail(pairs), InsertByIdx(Head(pairs), acc))

\* A renderer that forgets the sort and emits in completion order.
SortByIdxMutCompletionOrder(pairs) == pairs

SortByIdx(pairs) == SortByIdxRec(pairs, <<>>)

\* [text for _, text in formatted_books]
Fragments(pairs) == [p \in 1..Len(pairs) |-> pairs[p][2]]

\* The fixed header of the report (title, underline, blank line for text;
\* the HTML header and search container otherwise), as opaque lines.
Header(fmt) ==
    IF fmt = "text" THEN <<"title", "underline", "">> ELSE <<"html_header", "search_container">>

(***************************************************************************)
(* The data sources of the Source Locator.                                 *)
(***************************************************************************)
\* local_paths of get_items_from_local_db, get_local_collections and
\* search_local_sqlite; connect_to_calibre_db has the single path db_path,
\* modelled as candidate 1.
NumLocalPaths == 4

Funcs == {"get_items", "list_collections", "find_papers_by_title", "connect_to_calibre_db"}
Sources == {"local", "drive", "api"}

\* A candidate database file: missing, a database whose query yields no row,
\* one whose query yields rows, or a file sqlite3 cannot read.
DbStates == {"absent", "empty", "rows", "corrupt"}

\* What the Drive lookup of the database file meets: the search raises, finds
\* no file, finds a link without a file id, the download fails, or a copy of
\* the database is downloaded (empty, with rows, unreadable).
DriveStates == {"search_error", "no_file", "no_file_id", "download_failed",
                "empty", "rows", "corrupt"}
CalibreDriveStates == {"search_error", "no_file", "download_failed", "empty", "rows"}

\* What the remote API answers: an error, nothing, items, or only notes.
ApiStates == {"error", "empty", "rows", "notes_only"}

Item(key, type, src) == [key |-> key, itemType |-> type, src |-> src]

\* The rows the SQL query of a database in state db returns (the query itself
\* excludes deleted items, notes and attachments).
SqliteRows(db, src) ==
    IF db = "rows"
    THEN <<Item("K1", "journalArticle", src), Item("K2", "book", src)>>
    ELSE <<>>

\* get_items_from_sqlite: an unreadable database raises inside the try and
\* yields []; so does every non-empty row set, because the conversion calls
\* row.get(...), which sqlite3.Row does not have (AttributeError, caught by
\* the same except); an empty row set yields [].
GetItemsFromSqlite(db, src) ==
    IF db = "corrupt" THEN <<>>
    ELSE IF SqliteRows(db, src) # <<>> THEN <<>>
    ELSE <<>>

\* get_collections_from_sqlite: the rows as collections, [] on any exception.
GetCollectionsFromSqlite(db, src) ==
    IF db = "corrupt" THEN <<>>
    ELSE [i \in 1..Len(SqliteRows(db, src)) |->
             Item(SqliteRows(db, src)[i].key, "collection", src)]

\* search_sqlite_db: the matching rows, [] when the database cannot be read.
SearchSqliteDb(db, src) ==
    IF db = "corrupt" THEN <<>> ELSE SqliteRows(db, src)

QuerySqlite(f, db, src) ==
    CASE f = "get_items" -> GetItemsFromSqlite(db, src)
      [] f = "list_collections" -> GetCollectionsFromSqlite(db, src)
      [] OTHER -> SearchSqliteDb(db, src)

\* `for path in local_paths: if os.path.exists(path): ...; break`: the first
\* candidate that exists, 0 when none does.
FirstExisting(db) ==
    IF \E p \in 1..NumLocalPaths : db[p] # "absent"
    THEN CHOOSE p \in 1..NumLocalPaths :
            /\ db[p] # "absent"
            /\ \A q \in 1..(p - 1) : db[q] = "absent"
    ELSE 0

\* A loop over the local paths that goes on to the next existing database
\* when one yields nothing.
BreakAfterFirstMutContinue == FALSE

\* `break  # Only try first available database`
BreakAfterFirst == TRUE

\* The loop `for path in local_paths` of get_items_from_local_db,
\* get_local_collections and search_local_sqlite, from candidate p on: the
\* databases it opens and the records it returns.
RECURSIVE LocalLoop(_, _, _)
LocalLoop(f, db, p) ==
    IF p > NumLocalPaths THEN [opened |-> <<>>, result |-> <<>>]
    ELSE IF db[p] = "absent" THEN LocalLoop(f, db, p + 1)
    ELSE LET res == QuerySqlite(f, db[p], "local")
         IN  IF res # <<>> \/ BreakAfterFirst
             THEN [opened |-> <<p>>, result |-> res]
             ELSE [opened |-> <<p>> \o LocalLoop(f, db, p + 1).opened,
                   result |-> LocalLoop(f, db, p + 1).result]

\* get_items_from_local_db, get_local_collections, search_local_sqlite.
LocalResult(f, db) == LocalLoop(f, db, 1).result

\* get_items_from_gdrive, get_gdrive_collections, search_drive_sqlite: every
\* failure on the way to the downloaded copy yields [].
DriveResult(f, d) ==
    IF d \in {"empty", "rows", "corrupt"} THEN QuerySqlite(f, d, "drive") ELSE <<>>

\* What zot.items / zot.collection_items / zot.collections return.
ApiRaw(a) ==
    CASE a = "rows" -> <<Item("K1", "journalArticle", "api"), Item("N1", "note", "api")>>
      [] a = "notes_only" -> <<Item("N1", "note", "api")>>
      [] OTHER -> <<>>

\* [item for item in items if itemType not in ['note', 'attachment']]
FilterNotes(items) ==
    SelectSeq(items, LAMBDA it : it.itemType \notin {"note", "attachment"})

\* The records the API step returns when the API answers (a # "error").
ApiResult(f, a) ==
    IF f = "list_collections"
    THEN [i \in 1..Len(ApiRaw(a)) |-> Item(ApiRaw(a)[i].key, "collection", "api")]
    ELSE FilterNotes(ApiRaw(a))

\* The sqlite3 connection connect_to_calibre_db returns.
Connection(src) == <<Item("metadata.db", "connection", src)>>

\* A locator that never returns early.
ShortCircuitMutNever(res) == FALSE

\* `if items: return items` (and `if collections:`, `if results:`).
ShortCircuit(res) == res # <<>>

(***************************************************************************)
(* The initial values of each component's variables.                       *)
(***************************************************************************)
NoPdf == [raised |-> FALSE, saved_msg |-> FALSE]

\* The invocations that run concurrently.
Procs == {"p1", "p2"}

NoProc == [pc |-> "idle", sent_ids |-> {}, read_lines |-> 0, selected_book |-> <<>>,
           delivered |-> FALSE]

NoToken == 0

NoSearch == [max_results |-> 0, include_shared |-> FALSE, folder_id |-> FALSE]

PagingIdle ==
    /\ drive_pages = <<>>
    /\ shared_files = <<>>
    /\ search_params = NoSearch
    /\ search_results = <<>>
    /\ page_token = NoToken
    /\ requests = 0
    /\ spc = "idle"

RaceIdle ==
    /\ procs = [p \in Procs |-> NoProc]
    /\ appends = <<>>
    /\ PagingIdle

RenderIdle ==
    /\ RaceIdle
    /\ pdf = NoPdf
    /\ output_format = "text"
    /\ books = <<>>
    /\ submitted = 0
    /\ future = <<>>
    /\ future_result = <<>>
    /\ formatted_books = <<>>
    /\ output = <<>>
    /\ rpc = "idle"

LocateIdle ==
    /\ func = "none"
    /\ local_db = [p \in 1..NumLocalPaths |-> "absent"]
    /\ drive_db = "unknown"
    /\ api_state = "unknown"
    /\ queried = <<>>
    /\ opened = <<>>
    /\ src_result = [s \in Sources |-> <<>>]
    /\ loc_result = <<>>
    /\ loc_exc = "none"
    /\ lpc = "idle"

ResolveIdle ==
    /\ attachments = <<>>
    /\ attachment_info = <<>>
    /\ search_log = <<>>
    /\ apc = "idle"

NoArgs == [recipient |-> <<>>, gmail |-> FALSE, book_id |-> <<>>, book_title |-> <<>>,
           random |-> FALSE,
           tag |-> <<>>]

FilterIdle ==
    /\ book_tags = <<>>
    /\ filtered_books = <<>>
    /\ fpc = "idle"

NoSendOpts == [papers_found |-> TRUE, delete_after_send |-> TRUE]

NoMessage == [parts |-> <<>>, links |-> <<>>, links_section |-> FALSE]

ComposeIdle ==
    /\ drive_files = <<>>
    /\ email_body = "default"
    /\ msg = NoMessage
    /\ cpc = "idle"
    /\ send_opts = NoSendOpts
    /\ disk = {}
    /\ relay_accepted = FALSE
    /\ result = "none"

MailIdle ==
    /\ library = <<>>
    /\ sent_file = [exists |-> FALSE, content |-> <<>>]
    /\ args = NoArgs
    /\ selected_books = <<>>
    /\ send_idx = 0
    /\ sends = <<>>
    /\ picked = {}
    /\ emailed = {}
    /\ sent_at_start = {}
    /\ mpc = "idle"

(***************************************************************************)
(* The Report Renderer: generate_text_output, generate_books_html,         *)
(* generate_items_html, and display_books / display_items around them.     *)
(***************************************************************************)
InitRender ==
    /\ script \in Scripts
    /\ output_format \in OutputFormats
    /\ \E n \in 0..MaxBooks : \E f \in [1..n -> BOOLEAN] :
          books = [i \in 1..n |-> [id |-> LibraryId(i), fails |-> f[i]]]
    /\ submitted = 0
    /\ future = [i \in 1..Len(books) |-> "unsubmitted"]
    /\ future_result = [i \in 1..Len(books) |-> NoFragment]
    /\ formatted_books = <<>>
    /\ output = <<>>
    /\ rpc = "display"
    /\ exit_code = 0
    /\ google_creds = FALSE
    /\ RaceIdle
    /\ pdf = NoPdf
    /\ LocateIdle
    /\ ResolveIdle
    /\ MailIdle
    /\ ComposeIdle
    /\ FilterIdle

\* display_books / display_items: an empty list prints "No books found." and
\* returns; otherwise the renderer starts.
DisplayStart ==
    /\ rpc = "display"
    /\ rpc' = IF Len(books) = 0 THEN "exit" ELSE "submit"
    /\ UNCHANGED nonRenderVars
    /\ UNCHANGED pdf
    /\ UNCHANGED <<script, output_format, books, submitted, future, future_result,
                   formatted_books, output, exit_code>>

\* executor.submit(format_single_book, i, book, ...); future_to_idx[future] = i
Submit ==
    /\ rpc = "submit"
    /\ submitted < Len(books)
    /\ submitted' = submitted + 1
    /\ future' = [future EXCEPT ![submitted + 1] = "pending"]
    /\ UNCHANGED nonRenderVars
    /\ UNCHANGED pdf
    /\ UNCHANGED <<script, output_format, books, future_result, formatted_books,
                   output, rpc, exit_code>>

\* The submission loop is over: the main thread enters as_completed.
SubmitDone ==
    /\ rpc = "submit"
    /\ submitted = Len(books)
    /\ rpc' = "collect"
    /\ UNCHANGED nonRenderVars
    /\ UNCHANGED pdf
    /\ UNCHANGED <<script, output_format, books, submitted, future, future_result,
                   formatted_books, output, exit_code>>

\* A worker thread runs task i to completion, at any time after its submission.
TaskRun ==
    \E i \in 1..Len(books) :
        /\ future[i] = "pending"
        /\ future' = [future EXCEPT ![i] = "done"]
        /\ future_result' = [future_result EXCEPT ![i] = FormatSingle(i - 1, books[i])]
        /\ UNCHANGED nonRenderVars
    /\ UNCHANGED pdf
        /\ UNCHANGED <<script, output_format, books, submitted, formatted_books,
                       output, rpc, exit_code>>

\* One iteration of `for future in as_completed(future_to_idx)`: any finished
\* future not yet yielded; idx = future_to_idx[future]; append (idx, result).
Collect ==
    /\ rpc = "collect"
    /\ \E i \in 1..Len(books) :
          /\ future[i] = "done"
          /\ future' = [future EXCEPT ![i] = "collected"]
          /\ formatted_books' =
                Append(formatted_books, <<i - 1, FutureResult(i - 1, future_result[i])>>)
    /\ UNCHANGED nonRenderVars
    /\ UNCHANGED pdf
    /\ UNCHANGED <<script, output_format, books, submitted, future_result,
                   output, rpc, exit_code>>

\* All futures were yielded: sort by index, drop the index, prepend the header.
Assemble ==
    /\ rpc = "collect"
    /\ \A i \in 1..Len(books) : future[i] = "collected"
    /\ output' = Header(output_format) \o Fragments(SortByIdx(formatted_books))
    /\ rpc' = "emit"
    /\ UNCHANGED nonRenderVars
    /\ UNCHANGED pdf
    /\ UNCHANGED <<script, output_format, books, submitted, future, future_result,
                   formatted_books, exit_code>>

\* A generate_pdf_output whose except clause only reports the error.
PdfFailureExitsMutWarns == FALSE

\* generate_pdf_output: `except Exception as e: ...; sys.exit(1)`.  SystemExit
\* is not an Exception, so main's `except Exception` lets it through.
PdfFailureExits == TRUE

\* display_books after the renderer: text and HTML are printed or saved;
\* PDF goes through generate_pdf_output, which calls sys.exit(1) when the
\* conversion raises.
Emit ==
    /\ rpc = "emit"
    /\ \E pdf_ok \in BOOLEAN :
          /\ (output_format # "pdf") => pdf_ok
          /\ IF pdf_ok
             THEN /\ rpc' = "exit"
                  /\ exit_code' = exit_code
                  /\ pdf' = [raised |-> FALSE, saved_msg |-> output_format = "pdf"]
             ELSE IF PdfFailureExits
             THEN /\ rpc' = "pdf_failed"
                  /\ exit_code' = 1
                  /\ pdf' = [raised |-> TRUE, saved_msg |-> FALSE]
             ELSE /\ rpc' = "exit"
                  /\ exit_code' = exit_code
                  /\ pdf' = [raised |-> TRUE, saved_msg |-> TRUE]
    /\ UNCHANGED nonRenderVars
    /\ UNCHANGED <<script, output_format, books, submitted, future, future_result,
                   formatted_books, output>>

NextRender ==
    \/ DisplayStart
    \/ Submit
    \/ SubmitDone
    \/ TaskRun
    \/ Collect
    \/ Assemble
    \/ Emit

SpecRender == InitRender /\ [][NextRender]_vars

(***************************************************************************)
(* Claims about the Report Renderer.                                       *)
(***************************************************************************)
\* The fragments of the assembled report, after the header.
ReportFragments == SubSeq(output, Len(Header(output_format)) + 1, Len(output))

RenderAssembled == rpc \in {"emit", "exit", "pdf_failed"} /\ Len(books) > 0

\* C1: for every list of records and every completion order of the formatting
\* tasks, the assembled report holds exactly one fragment per input record and
\* the fragment at position i is the one produced for input record i.
C1_OrderPreserved ==
    RenderAssembled =>
        /\ Len(ReportFragments) = Len(books)
        /\ \A i \in 1..Len(books) : ReportFragments[i] = FormatSingle(i - 1, books[i])

\* Witness of C1: a report was assembled from at least two records whose tasks
\* were collected in an order other than the submission order.
C1_Witness ==
    /\ RenderAssembled
    /\ Len(books) >= 2
    /\ formatted_books[1][1] > formatted_books[2][1]

\* C2: if formatting raises for any subset F of the records, the report is
\* still produced: one fragment per record in original order, an error
\* placeholder at exactly the positions in F and a normal fragment (of that
\* record) at every other position, and the exit code of the listing run is 0
\* (the only non-zero exit of the listing is a failed PDF conversion).
C2_PlaceholdersExactlyAtFailures ==
    /\ RenderAssembled =>
          /\ Len(ReportFragments) = Len(books)
          /\ \A i \in 1..Len(books) :
                /\ ReportFragments[i].number = i
                /\ (ReportFragments[i].kind = "error") <=> books[i].fails
                /\ ~books[i].fails =>
                      /\ ReportFragments[i].kind = "item"
                      /\ ReportFragments[i].content = FormatRecord(books[i])
    /\ (rpc # "pdf_failed") => exit_code = 0

\* C16: when the HTML-to-PDF conversion raises, the run ends there with exit
\* code 1 and "PDF output saved" is not printed.
C16_PdfFailureIsFatal ==
    pdf.raised => (rpc = "pdf_failed" /\ exit_code = 1 /\ ~pdf.saved_msg)

\* Witness of C16: a PDF run over a non-empty list whose conversion raised.
C16_Witness ==
    /\ output_format = "pdf"
    /\ Len(books) > 0
    /\ pdf.raised
    /\ rpc = "pdf_failed"
    /\ exit_code = 1

\* Witness of C2: a finished run over three records of which exactly one
\* failed to format, ending with exit code 0.
C2_Witness ==
    /\ rpc = "exit"
    /\ exit_code = 0
    /\ Len(books) = 3
    /\ Cardinality({i \in 1..Len(books) : books[i].fails}) = 1
    /\ Cardinality({i \in 1..Len(ReportFragments) : ReportFragments[i].kind = "error"}) = 1

(***************************************************************************)
(* The Source Locator: get_items, list_collections, find_papers_by_title   *)
(* (Zotero) and connect_to_calibre_db (Calibre), followed by what main     *)
(* does with the outcome.                                                  *)
(***************************************************************************)
InitLocate ==
    /\ func \in Funcs
    /\ script = (IF func = "connect_to_calibre_db" THEN "calibre" ELSE "zotero")
    /\ local_db \in [1..NumLocalPaths -> DbStates]
    /\ (func = "connect_to_calibre_db") =>
           \A p \in 2..NumLocalPaths : local_db[p] = "absent"
    /\ google_creds \in BOOLEAN
    /\ drive_db = "unknown"
    /\ api_state = "unknown"
    /\ queried = <<>>
    /\ opened = <<>>
    /\ src_result = [s \in Sources |-> <<>>]
    /\ loc_result = <<>>
    /\ loc_exc = "none"
    /\ lpc = "local"
    /\ exit_code = 0
    /\ RenderIdle
    /\ ResolveIdle
    /\ MailIdle
    /\ ComposeIdle
    /\ FilterIdle

\* The locator returns res.
Return(res) ==
    /\ loc_result' = res
    /\ loc_exc' = "none"
    /\ lpc' = "returned"

\* An exception leaves the locator.
Raise(exc) ==
    /\ loc_result' = loc_result
    /\ loc_exc' = exc
    /\ lpc' = "raised"

\* The locator goes on to the next source.
Continue(next) ==
    /\ loc_result' = loc_result
    /\ loc_exc' = loc_exc
    /\ lpc' = next

\* Step 1.  Zotero: the first existing local database is queried and a
\* non-empty result is returned.  Calibre: os.path.exists(db_path), then
\* sqlite3.connect(db_path), which raises on a file it cannot open.
TryLocal ==
    /\ lpc = "local"
    /\ queried' = Append(queried, "local")
    /\ opened' = IF func = "connect_to_calibre_db"
                 THEN (IF FirstExisting(local_db) = 0 THEN opened
                       ELSE Append(opened, FirstExisting(local_db)))
                 ELSE opened \o LocalLoop(func, local_db, 1).opened
    /\ IF func = "connect_to_calibre_db"
       THEN CASE local_db[1] = "absent" ->
                    /\ src_result' = src_result
                    /\ Continue("drive")
              [] local_db[1] = "corrupt" ->
                    /\ src_result' = src_result
                    /\ Raise("SourceError")
              [] OTHER ->
                    /\ src_result' = [src_result EXCEPT !["local"] = Connection("local")]
                    /\ Return(Connection("local"))
       ELSE /\ src_result' = [src_result EXCEPT !["local"] = LocalResult(func, local_db)]
            /\ IF ShortCircuit(LocalResult(func, local_db))
               THEN Return(LocalResult(func, local_db))
               ELSE Continue("drive")
    /\ UNCHANGED <<script, exit_code, func, local_db, google_creds, drive_db, api_state>>
    /\ UNCHANGED nonLocateVars

\* Step 2 without Drive credentials.  Zotero skips the Drive copy; Calibre
\* raises FileNotFoundError (the last line of connect_to_calibre_db).
SkipDrive ==
    /\ lpc = "drive"
    /\ ~google_creds
    /\ IF func = "connect_to_calibre_db"
       THEN Raise("FileNotFoundError")
       ELSE Continue("api")
    /\ UNCHANGED <<script, exit_code, func, local_db, google_creds, drive_db, api_state,
                   queried, opened, src_result>>
    /\ UNCHANGED nonLocateVars

\* Step 2 with Drive credentials.  Zotero: the copy found on Drive is
\* downloaded and queried like the local one, every failure being swallowed.
\* Calibre: the copy is downloaded and connected to; a Drive exception is
\* re-raised as FileNotFoundError and so is the absence of the file.
TryDrive ==
    /\ lpc = "drive"
    /\ google_creds
    /\ queried' = Append(queried, "drive")
    /\ \E d \in DriveStates :
          /\ (func = "connect_to_calibre_db") => d \in CalibreDriveStates
          /\ drive_db' = d
          /\ IF func = "connect_to_calibre_db"
             THEN IF d \in {"empty", "rows"}
                  THEN /\ src_result' = [src_result EXCEPT !["drive"] = Connection("drive")]
                       /\ Return(Connection("drive"))
                  ELSE /\ src_result' = src_result
                       /\ Raise("FileNotFoundError")
             ELSE /\ src_result' = [src_result EXCEPT !["drive"] = DriveResult(func, d)]
                  /\ IF ShortCircuit(DriveResult(func, d))
                     THEN Return(DriveResult(func, d))
                     ELSE Continue("api")
    /\ UNCHANGED <<script, exit_code, func, local_db, google_creds, api_state, opened>>
    /\ UNCHANGED nonLocateVars

\* Step 3 (Zotero only): the remote API.  get_items and search_zotero_api
\* catch an API error and return []; list_collections calls zot.collections()
\* outside any try, so the error leaves it.
TryApi ==
    /\ lpc = "api"
    /\ queried' = Append(queried, "api")
    /\ \E a \in ApiStates :
          /\ api_state' = a
          /\ IF a = "error"
             THEN /\ src_result' = src_result
                  /\ IF func = "list_collections"
                     THEN Raise("SourceError")
                     ELSE Return(<<>>)
             ELSE /\ src_result' = [src_result EXCEPT !["api"] = ApiResult(func, a)]
                  /\ Return(ApiResult(func, a))
    /\ UNCHANGED <<script, exit_code, func, local_db, google_creds, drive_db, opened>>
    /\ UNCHANGED nonLocateVars

\* main after the locator.  An exception reaches `except Exception` and
\* sys.exit(1).  Otherwise the listing is displayed (an empty one prints
\* "No items found." / "No collections found."), except that the search mode
\* calls sys.exit(1) when find_papers_by_title found nothing.
ExitCodeAfterLocate(f, pc, res) ==
    IF pc = "raised" THEN 1
    ELSE IF f = "find_papers_by_title" /\ res = <<>> THEN 1
    ELSE 0

MainAfterLocate ==
    /\ lpc \in {"returned", "raised"}
    /\ exit_code' = ExitCodeAfterLocate(func, lpc, loc_result)
    /\ lpc' = "exit"
    /\ UNCHANGED <<script, func, local_db, google_creds, drive_db, api_state, queried,
                   opened, src_result, loc_result, loc_exc>>
    /\ UNCHANGED nonLocateVars

NextLocate ==
    \/ TryLocal
    \/ SkipDrive
    \/ TryDrive
    \/ TryApi
    \/ MainAfterLocate

SpecLocate == InitLocate /\ [][NextLocate]_vars

(***************************************************************************)
(* Claims about the Source Locator.                                        *)
(***************************************************************************)
Priority(s) == CASE s = "local" -> 1 [] s = "drive" -> 2 [] OTHER -> 3

\* C3: in every run of the Source Locator, a source of lower priority is
\* never queried once a source of higher priority has returned at least one
\* record: every source queried before another one returned no record, and
\* the sources are queried in priority order.
C3_ShortCircuitPriority ==
    \A i \in 1..Len(queried) : \A j \in 1..Len(queried) :
        i < j =>
            /\ Priority(queried[i]) < Priority(queried[j])
            /\ src_result[queried[i]] = <<>>

\* Witness of C3: a locator returned the records of the local database, and
\* neither Drive (although configured) nor the API was queried.
C3_Witness ==
    /\ lpc = "returned"
    /\ func = "find_papers_by_title"
    /\ google_creds
    /\ src_result["local"] # <<>>
    /\ queried = <<"local">>

\* The result of each source as the environment determines it (a source the
\* locator did not reach counts as unknown and is not consulted).
LocalOf == IF func = "connect_to_calibre_db"
           THEN (IF local_db[1] \in {"empty", "rows"} THEN Connection("local") ELSE <<>>)
           ELSE LocalResult(func, local_db)

DriveOf == IF ~google_creds \/ drive_db = "unknown" THEN <<>>
           ELSE IF func = "connect_to_calibre_db"
           THEN (IF drive_db \in {"empty", "rows"} THEN Connection("drive") ELSE <<>>)
           ELSE DriveResult(func, drive_db)

ApiOf == IF api_state \in {"unknown", "error"} THEN <<>> ELSE ApiResult(func, api_state)

\* C4: the record set returned by the locator is exactly the result of one
\* source, the first in the order local, Drive, API whose result is not
\* empty (and empty when all are); records of two sources are never combined.
C4_FirstNonEmptySource ==
    lpc \in {"returned", "exit"} /\ loc_exc = "none" =>
        /\ loc_result = (IF LocalOf # <<>> THEN LocalOf
                         ELSE IF DriveOf # <<>> THEN DriveOf
                         ELSE ApiOf)
        /\ \A i \in 1..Len(loc_result) : \A j \in 1..Len(loc_result) :
               loc_result[i].src = loc_result[j].src

\* Witness of C4: list_collections found nothing locally although a database
\* exists, and returned the collections of the Drive copy.
C4_Witness ==
    /\ lpc = "returned"
    /\ func = "list_collections"
    /\ FirstExisting(local_db) # 0
    /\ src_result["local"] = <<>>
    /\ loc_result # <<>>
    /\ \A i \in 1..Len(loc_result) : loc_result[i].src = "drive"

\* The source s met an error when it was queried.
SourceFailed(s) ==
    CASE s = "local" -> FirstExisting(local_db) # 0
                        /\ local_db[FirstExisting(local_db)] = "corrupt"
      [] s = "drive" -> drive_db \in {"search_error", "download_failed", "corrupt"}
      [] OTHER -> api_state = "error"

\* C5: an error raised while querying one source never propagates out of the
\* Source Locator: the source counts as having returned no record and the
\* next source in priority order is tried.
C5_SourceErrorsSwallowed ==
    /\ loc_exc # "SourceError"
    /\ \A i \in 1..Len(queried) :
          (SourceFailed(queried[i]) /\ lpc \in {"returned", "raised", "exit"}) =>
              /\ src_result[queried[i]] = <<>>
              /\ \/ i < Len(queried)
                 \/ queried[i] = "api"
                 \/ loc_exc = "FileNotFoundError"

\* All sources are missing or unreachable.
NoSourceAvailable ==
    /\ FirstExisting(local_db) = 0
    /\ \/ ~google_creds
       \/ drive_db \in {"search_error", "no_file", "no_file_id", "download_failed"}
    /\ (func # "connect_to_calibre_db") => api_state = "error"

\* C6: when no data source is available or reachable, the run fails and exits
\* with a non-zero code; it never finishes successfully with an empty listing.
C6_NoSourceIsFatal ==
    (lpc = "exit" /\ NoSourceAvailable) => exit_code # 0

\* C17: a run ends with exit code 0 or 1, and with 1 exactly when a
\* top-level error occurred: an exception reached main, no data source was
\* available, or a search selected no record.
C17_ExitCodeReflectsErrors ==
    /\ exit_code \in {0, 1}
    /\ lpc = "exit" =>
          (exit_code = 1 <=>
              \/ loc_exc # "none"
              \/ NoSourceAvailable
              \/ (func = "find_papers_by_title" /\ loc_result = <<>>))

\* C20: when the first local zotero.sqlite that exists holds qualifying
\* rows, get_items returns one record per row, taken from the local
\* database, and queries neither Drive nor the remote API.
C20_LocalRowsServeGetItems ==
    (/\ func = "get_items"
     /\ lpc \in {"returned", "exit"}
     /\ FirstExisting(local_db) # 0
     /\ local_db[FirstExisting(local_db)] = "rows") =>
       /\ loc_result = SqliteRows("rows", "local")
       /\ queried = <<"local">>

\* C23: of the four candidate local zotero.sqlite paths only the first one
\* that exists is ever opened; when it yields no record the other local
\* paths are skipped and the next step is the Drive source.
C23_OnlyFirstLocalOpened ==
    (func \in {"get_items", "list_collections", "find_papers_by_title"}) =>
       /\ Len(opened) <= 1
       /\ \A k \in 1..Len(opened) : opened[k] = FirstExisting(local_db)
       /\ (lpc # "local" /\ FirstExisting(local_db) # 0) => opened = <<FirstExisting(local_db)>>
       /\ (lpc # "local" /\ src_result["local"] = <<>>) =>
             \/ lpc = "drive"
             \/ (google_creds /\ Len(queried) >= 2 /\ queried[2] = "drive")
             \/ (~google_creds /\ "drive" \notin {queried[k] : k \in 1..Len(queried)})

\* Witness of C23: the second candidate is the first that exists and is
\* empty, a later candidate holds rows, and list_collections went on to the
\* Drive copy after opening the second candidate only.
C23_Witness ==
    /\ func = "list_collections"
    /\ local_db[1] = "absent"
    /\ local_db[2] = "empty"
    /\ local_db[3] = "rows"
    /\ opened = <<2>>
    /\ Len(queried) >= 2
    /\ queried[2] = "drive"

(***************************************************************************)
(* The Attachment Resolver: get_attachment_paths of both scripts, with     *)
(* get_drive_url_by_filename and search_file_in_drive below it.            *)
(***************************************************************************)
None == "None"

\* The files Drive may hold under an attachment's name: the account's own
\* files and the files shared with it, each in the order Drive lists them.
OwnedLists == {<<>>, <<"o1">>, <<"o1", "o2">>}
SharedLists == {<<>>, <<"s1">>}

\* The webViewLink of a Drive file.
WebViewLink(id) ==
    CASE id = "o1" -> "link_o1"
      [] id = "o2" -> "link_o2"
      [] OTHER -> "link_s1"

Min(a, b) == IF a < b THEN a ELSE b

\* One files().list response: at most page_size files starting at `from`, and
\* a nextPageToken exactly when files remain after them.
Page(files, from, page_size) == SubSeq(files, from, Min(from + page_size - 1, Len(files)))
HasNextPage(files, from, page_size) == from + page_size <= Len(files)

\* `for file in shared_files: if file['id'] not in existing_ids: append`.
RECURSIVE AppendNew(_, _)
AppendNew(results, files) ==
    IF files = <<>> THEN results
    ELSE IF \E k \in 1..Len(results) : results[k] = Head(files)
    THEN AppendNew(results, Tail(files))
    ELSE AppendNew(Append(results, Head(files)), Tail(files))

\* The `while True` loop of search_file_in_drive (no folder_name, as in every
\* call of the resolver): extend by the page, add shared files while fewer
\* than max_results are held, stop without a token or with max_results files.
RECURSIVE SearchLoop(_, _, _, _, _, _)
SearchLoop(owned, shared, from, results, max_results, include_shared) ==
    LET r1 == results \o Page(owned, from, max_results)
        r2 == IF include_shared /\ Len(r1) < max_results
              THEN AppendNew(r1, Page(shared, 1, max_results - Len(r1)))
              ELSE r1
    IN  IF ~HasNextPage(owned, from, max_results) \/ Len(r2) >= max_results
        THEN r2
        ELSE SearchLoop(owned, shared, from + max_results, r2, max_results, include_shared)

\* search_file_in_drive: results[:max_results].
SearchFileInDrive(owned, shared, max_results, include_shared) ==
    LET r == SearchLoop(owned, shared, 1, <<>>, max_results, include_shared)
    IN  SubSeq(r, 1, Min(max_results, Len(r)))

\* A lookup that asks for every match and takes the last one.
GetDriveUrlByFilenameMutLastResult(creds, owned, shared, err) ==
    IF ~creds \/ err THEN None
    ELSE LET r == SearchFileInDrive(owned, shared, 10, TRUE)
         IN  IF r = <<>> THEN None ELSE WebViewLink(r[Len(r)])

\* get_drive_url_by_filename(creds, filename, exact_match=True): None without
\* credentials, None when the search raises (err: caught inside), None when
\* it finds nothing, else the link of the first result.
GetDriveUrlByFilename(creds, owned, shared, err) ==
    IF ~creds \/ err THEN None
    ELSE LET r == SearchFileInDrive(owned, shared, 1, TRUE)
         IN  IF r = <<>> THEN None ELSE WebViewLink(r[1])

\* Calibre only: the explicit second search among the shared files, made
\* when the first lookup gave no URL.  Its query carries sharedWithMe = true,
\* so both lists it sees are the shared files.
SharedSearchUrl(shared) ==
    LET r == SearchFileInDrive(shared, shared, 1, TRUE)
    IN  IF r = <<>> THEN None ELSE WebViewLink(r[1])

\* The Drive lookup for one attachment.  err1 / err2 say whether the first /
\* second search raises.  `exc` is TRUE when an exception reaches the
\* try/except of get_attachment_paths itself.
LookupUrl(scr, creds, att, err1, err2) ==
    LET u1 == GetDriveUrlByFilename(creds, att.owned, att.shared, err1)
    IN  IF ~creds THEN [url |-> None, exc |-> FALSE]
        ELSE IF u1 # None \/ scr = "zotero" THEN [url |-> u1, exc |-> FALSE]
        ELSE IF err2 THEN [url |-> None, exc |-> TRUE]
        ELSE [url |-> SharedSearchUrl(att.shared), exc |-> FALSE]

\* The outcomes of the searches made for one attachment.
Outcome(err, url) == IF err THEN "error" ELSE IF url = None THEN "none" ELSE "found"

SearchOutcomes(scr, creds, att, err1, err2) ==
    LET u1 == GetDriveUrlByFilename(creds, att.owned, att.shared, err1)
    IN  IF ~creds THEN {}
        ELSE IF u1 # None \/ scr = "zotero" THEN {Outcome(err1, u1)}
        ELSE {Outcome(err1, u1), Outcome(err2, SharedSearchUrl(att.shared))}

\* A resolver whose try has no except clause.
SearchExceptionCaughtMutNoExcept == FALSE

\* `except Exception as e:` around the Drive lookup of get_attachment_paths.
SearchExceptionCaught == TRUE

InitResolve ==
    /\ script \in Scripts
    /\ google_creds \in BOOLEAN
    /\ \E n \in 0..MaxAttachments :
          attachments \in [1..n -> [owned : OwnedLists, shared : SharedLists]]
    /\ attachment_info = <<>>
    /\ search_log = <<>>
    /\ apc = "resolve"
    /\ exit_code = 0
    /\ RenderIdle
    /\ LocateIdle
    /\ MailIdle
    /\ ComposeIdle
    /\ FilterIdle

\* One iteration of the loop over the record's formats / attachment rows:
\* the descriptor starts with drive_url None, the lookup may set it, and the
\* descriptor is appended.
ResolveNext ==
    /\ apc = "resolve"
    /\ Len(attachment_info) < Len(attachments)
    /\ \E err1 \in BOOLEAN : \E err2 \in BOOLEAN :
          LET i == Len(attachment_info) + 1
              got == LookupUrl(script, google_creds, attachments[i], err1, err2)
          IN  /\ search_log' = Append(search_log,
                     SearchOutcomes(script, google_creds, attachments[i], err1, err2))
              /\ IF got.exc /\ ~SearchExceptionCaught
                 THEN /\ apc' = "raised"
                      /\ attachment_info' = attachment_info
                 ELSE /\ apc' = apc
                      /\ attachment_info' =
                            Append(attachment_info, [local_path |-> i, drive_url |-> got.url])
    /\ UNCHANGED <<script, google_creds, attachments>>
    /\ UNCHANGED nonResolveVars

\* `return attachment_info`
ResolveDone ==
    /\ apc = "resolve"
    /\ Len(attachment_info) = Len(attachments)
    /\ apc' = "done"
    /\ UNCHANGED <<script, google_creds, attachments, attachment_info, search_log>>
    /\ UNCHANGED nonResolveVars

NextResolve ==
    \/ ResolveNext
    \/ ResolveDone

SpecResolve == InitResolve /\ [][NextResolve]_vars

(***************************************************************************)
(* Claims about the Attachment Resolver.                                   *)
(***************************************************************************)
\* C7: for every attachment, get_attachment_paths returns a descriptor whose
\* drive_url is null, without raising, whenever the Drive searches made for
\* it find no file of that name or fail; a missing cloud match never removes
\* the descriptor or aborts the resolution of the remaining attachments.
C7_MissIsNullUrl ==
    /\ apc # "raised"
    /\ Len(search_log) = Len(attachment_info)
    /\ \A i \in 1..Len(attachment_info) :
          /\ attachment_info[i].local_path = i
          /\ ("found" \notin search_log[i]) => attachment_info[i].drive_url = None
          /\ (attachments[i].owned = <<>> /\ attachments[i].shared = <<>>) =>
                 attachment_info[i].drive_url = None
    /\ apc = "done" => Len(attachment_info) = Len(attachments)

\* Witness of C7: with Drive configured, the resolver finished two
\* attachments; the first one's searches all failed or found nothing and its
\* descriptor has no URL, the second one's descriptor has a URL.
C7_Witness ==
    /\ apc = "done"
    /\ google_creds
    /\ Len(attachment_info) = 2
    /\ "error" \in search_log[1]
    /\ "found" \notin search_log[1]
    /\ attachment_info[1].drive_url = None
    /\ attachment_info[2].drive_url # None

\* The links of the files shared with the account under an attachment's name.
SharedLinks(att) == {WebViewLink(att.shared[k]) : k \in 1..Len(att.shared)}

\* Once appended, a descriptor is never written again.
DescriptorsFrozen ==
    \A i \in 1..Len(attachment_info) :
       /\ Len(attachment_info') >= i
       /\ attachment_info'[i] = attachment_info[i]

SP == " "

\* str.lower() on one character of the alphabet used here.
LowerChar(ch) == CASE ch = "M" -> "m" [] ch = "A" -> "a" [] OTHER -> ch

LowerStr(str) == [k \in 1..Len(str) |-> LowerChar(str[k])]

\* str.strip(): SP is the only whitespace of the alphabet.
RECURSIVE StripStr(_)
StripStr(str) ==
    IF str = <<>> THEN str
    ELSE IF Head(str) = SP THEN StripStr(Tail(str))
    ELSE IF str[Len(str)] = SP THEN StripStr(SubSeq(str, 1, Len(str) - 1))
    ELSE str

\* Python's `a in b` on strings.
IsSubstring(a, b) ==
    \E i \in 1..(Len(b) + 1) : i + Len(a) - 1 <= Len(b) /\ SubSeq(b, i, i + Len(a) - 1) = a

\* The tag names stored in the catalogue: "Ma", "ab", "c".
TagNames == {<<"M", "a">>, <<"a", "b">>, <<"c">>}

\* The tags one book can carry, in the order the query returns them.
BookTagLists == {<<>>, <<<<"M", "a">>>>, <<<<"a", "b">>>>, <<<<"c">>>>,
                 <<<<"M", "a">>, <<"c">>>>}

\* Values of one --tag option: "m", "abc", " MA ", " ".
RequestedTags == {<<"m">>, <<"a", "b", "c">>, <<SP, "M", "A", SP>>, <<SP>>}

\* args.tag: absent, or one or two --tag options.
TagArgs == {<<>>} \cup {<<t>> : t \in RequestedTags}
                  \cup {<<t, u>> : t \in RequestedTags, u \in RequestedTags}

\* categories = [cat.strip().lower() for cat in args.tag if cat.strip()]
Categories(tag_arg) ==
    LET kept == SelectSeq(tag_arg, LAMBDA cat : StripStr(cat) # <<>>)
    IN  [k \in 1..Len(kept) |-> LowerStr(StripStr(kept[k]))]

\* A match that tests one direction only.
TagMatchMutOneWay(cat, tag) == IsSubstring(cat, tag)

\* `if cat in tag or tag in cat`
TagMatch(cat, tag) == IsSubstring(cat, tag) \/ IsSubstring(tag, cat)

\* The loops over categories and book_tags; book_tags are lowercased.
BookMatches(categories, tags) ==
    \E c \in 1..Len(categories) : \E t \in 1..Len(tags) :
       TagMatch(categories[c], LowerStr(tags[t]))

\* filtered_books: the matching books, appended in the order of `books`.
RECURSIVE FilterFrom(_, _, _, _)
FilterFrom(all_books, tags, categories, i) ==
    IF i > Len(all_books) THEN <<>>
    ELSE (IF BookMatches(categories, tags[i]) THEN <<all_books[i]>> ELSE <<>>)
         \o FilterFrom(all_books, tags, categories, i + 1)

\* main's `books` after `if categories:`; an empty categories list is falsy
\* and leaves the list unfiltered.
FilteredBooks(all_books, tags, tag_arg) ==
    IF Categories(tag_arg) = <<>> THEN all_books
    ELSE FilterFrom(all_books, tags, Categories(tag_arg), 1)

InitFilter ==
    /\ script = "calibre"
    /\ \E n \in 0..MaxBooks :
          /\ library = [i \in 1..n |-> [id |-> LibraryId(i)]]
          /\ book_tags \in [1..n -> BookTagLists]
    /\ \E t \in TagArgs : args = [NoArgs EXCEPT !.tag = t]
    /\ filtered_books = <<>>
    /\ fpc = "fetched"
    /\ exit_code = 0
    /\ google_creds = FALSE
    /\ sent_file = [exists |-> FALSE, content |-> <<>>]
    /\ selected_books = <<>>
    /\ send_idx = 0
    /\ sends = <<>>
    /\ picked = {}
    /\ emailed = {}
    /\ sent_at_start = {}
    /\ mpc = "idle"
    /\ RenderIdle
    /\ LocateIdle
    /\ ResolveIdle
    /\ ComposeIdle

\* `if categories:` - the filter loop, then `books = filtered_books`.
ApplyTagFilter ==
    /\ fpc = "fetched"
    /\ Categories(args.tag) # <<>>
    /\ filtered_books' = FilteredBooks(library, book_tags, args.tag)
    /\ fpc' = "filtered"
    /\ UNCHANGED <<script, exit_code, google_creds, book_tags, mailVars>>
    /\ UNCHANGED nonFilterVars

\* No --tag, or only blank ones: `books` stays the fetched list.
SkipTagFilter ==
    /\ fpc = "fetched"
    /\ Categories(args.tag) = <<>>
    /\ filtered_books' = library
    /\ fpc' = "unfiltered"
    /\ UNCHANGED <<script, exit_code, google_creds, book_tags, mailVars>>
    /\ UNCHANGED nonFilterVars

NextFilter ==
    \/ ApplyTagFilter
    \/ SkipTagFilter

SpecFilter == InitFilter /\ [][NextFilter]_vars

\* The tags of a record of the catalogue.
TagsOf(b) == book_tags[CHOOSE i \in 1..Len(library) : library[i] = b]

\* The position of a record in the fetched list.
PositionOf(b) == CHOOSE i \in 1..Len(library) : library[i] = b

\* The filtered list is a subsequence of the fetched one.
FilteredInOrder ==
    /\ \A k \in 1..Len(filtered_books) :
          \E i \in 1..Len(library) : library[i] = filtered_books[k]
    /\ \A j \in 1..Len(filtered_books) : \A k \in 1..Len(filtered_books) :
          j < k => PositionOf(filtered_books[j]) < PositionOf(filtered_books[k])

\* A requested tag and a stored tag match, compared case-insensitively.
Related(req, tag) ==
    \/ IsSubstring(LowerStr(req), LowerStr(tag))
    \/ IsSubstring(LowerStr(tag), LowerStr(req))

\* C14 as stated: with requested tags, the filtered list holds exactly the
\* books with a tag t such that a requested tag is a substring of t or t is
\* a substring of a requested tag, case-insensitively, and it is a
\* subsequence of the fetched list.
C14_FilterExactlyMatching ==
    (fpc # "fetched" /\ args.tag # <<>>) =>
       /\ FilteredInOrder
       /\ \A i \in 1..Len(library) :
             (\E k \in 1..Len(filtered_books) : filtered_books[k] = library[i])
             <=> (\E r \in 1..Len(args.tag) : \E t \in 1..Len(book_tags[i]) :
                     Related(args.tag[r], book_tags[i][t]))

\* The requested tags that count: stripped of surrounding whitespace, blank
\* ones dropped.
Requested == {StripStr(args.tag[r]) : r \in 1..Len(args.tag)} \ {<<>>}

\* C14, amended: requested tags are stripped and blank ones ignored; when
\* none remains the list is not filtered at all; otherwise the filtered list
\* holds exactly the books with a tag related to a remaining requested tag,
\* and it is always a subsequence of the fetched list.
C14_FilterExactlyMatchingStripped ==
    (fpc # "fetched" /\ args.tag # <<>>) =>
       /\ FilteredInOrder
       /\ Requested = {} => filtered_books = library
       /\ Requested # {} =>
             \A i \in 1..Len(library) :
                (\E k \in 1..Len(filtered_books) : filtered_books[k] = library[i])
                <=> (\E r \in Requested : \E t \in 1..Len(book_tags[i]) :
                        Related(r, book_tags[i][t]))

\* Witness of C14: of three books the first and the third match the
\* requested tags, one of them only because its tag is a substring of a
\* requested tag, and the filtered list is those two in the fetched order.
C14_Witness ==
    /\ fpc = "filtered"
    /\ Len(library) = 3
    /\ args.tag = <<<<"a", "b", "c">>, <<SP>>>>
    /\ book_tags[2] = <<<<"M", "a">>>>
    /\ filtered_books = <<library[1], library[3]>>

(***************************************************************************)
(* The Selector/Mailer: the email mode of main in both scripts, Calibre's  *)
(* select_random_book with its sent-log file sent_books.txt, and Zotero's  *)
(* send_paper_by_email in random mode.                                     *)
(***************************************************************************)
NL == "\n"

Digits == <<"0", "1", "2", "3", "4", "5", "6", "7", "8", "9">>

\* str(book['id']): the decimal digits of a positive identifier.
RECURSIVE Str(_)
Str(n) == IF n < 10 THEN <<Digits[n + 1]>> ELSE Append(Str(n \div 10), Digits[(n % 10) + 1])

\* `for line in f`: the lines of the file, each with its newline if it has one.
RECURSIVE FileLines(_, _)
FileLines(content, line) ==
    IF content = <<>> THEN (IF line = <<>> THEN <<>> ELSE <<line>>)
    ELSE IF Head(content) = NL
    THEN <<Append(line, NL)>> \o FileLines(Tail(content), <<>>)
    ELSE FileLines(Tail(content), Append(line, Head(content)))

\* line.strip(): NL is the only whitespace the file ever holds.
RECURSIVE Strip(_)
Strip(line) ==
    IF line = <<>> THEN line
    ELSE IF Head(line) = NL THEN Strip(Tail(line))
    ELSE IF line[Len(line)] = NL THEN Strip(SubSeq(line, 1, Len(line) - 1))
    ELSE line

\* The set sent_ids that select_random_book reads from the file.
SentIds(file) ==
    IF ~file.exists THEN {}
    ELSE LET lines == FileLines(file.content, <<>>)
         IN  {Strip(lines[k]) : k \in {j \in 1..Len(lines) : Strip(lines[j]) # <<>>}}

\* A selector that does not filter by the sent-log.
UnsentBooksMutNoFilter(all_books, sent_ids) == all_books

\* unsent_books = [book for book in books if str(book['id']) not in sent_ids]
UnsentBooks(all_books, sent_ids) ==
    SelectSeq(all_books, LAMBDA b : Str(b.id) \notin sent_ids)

\* A selector that opens the file for writing instead of appending.
AppendSentMutOverwrite(file, id) == [exists |-> TRUE, content |-> Str(id) \o <<NL>>]

\* A selector that does not record its choice.
AppendSentMutNoWrite(file, id) == file

\* open(sent_books_file, "a") ; f.write(f"{selected_book['id']}\n")
AppendSent(file, id) ==
    [exists |-> TRUE, content |-> file.content \o Str(id) \o <<NL>>]

RecipientLists == {<<>>, <<"r1">>, <<"r1", "r2">>}

\* args.book_id: absent, one identifier of the catalogue's range, or two of
\* which the second is in no catalogue.
BookIdLists == {<<>>, <<LibraryId(1)>>, <<LibraryId(2), LibraryId(MaxBooks + 1)>>}

\* `for bid in args.book_id: found = next((b for b in books if b['id'] == bid), None)`
RECURSIVE SelectByIds(_, _)
SelectByIds(all_books, bids) ==
    IF bids = <<>> THEN <<>>
    ELSE LET found == SelectSeq(all_books, LAMBDA b : b.id = Head(bids))
         IN  (IF found = <<>> THEN <<>> ELSE <<found[1]>>) \o SelectByIds(all_books, Tail(bids))

\* b['title'], by identifier: "Ma", "am", "m", and no title (None) for any
\* further book.
TitleOf(id) ==
    CASE id = LibraryId(1) -> <<"M", "a">>
      [] id = LibraryId(2) -> <<"a", "m">>
      [] id = LibraryId(3) -> <<"m">>
      [] OTHER -> <<>>

\* args.book_title: absent, the queries "A" and "am" (both match book 2), or
\* the query "c" that matches no title.
BookTitleLists == {<<>>, <<<<"A">>, <<"a", "m">>>>, <<<<"c">>>>}

\* `[b for b in books if title_query.lower() in (b['title'] or '').lower()]`
TitleMatches(all_books, title_query) ==
    SelectSeq(all_books, LAMBDA b : IsSubstring(LowerStr(title_query), LowerStr(TitleOf(b.id))))

\* `for m in matches: if m not in selected_books: selected_books.append(m)`
RECURSIVE AppendUnselected(_, _)
AppendUnselected(selected, matches) ==
    IF matches = <<>> THEN selected
    ELSE IF \E k \in 1..Len(selected) : selected[k] = Head(matches)
    THEN AppendUnselected(selected, Tail(matches))
    ELSE AppendUnselected(Append(selected, Head(matches)), Tail(matches))

\* `for title_query in args.book_title:`
RECURSIVE SelectByTitles(_, _, _)
SelectByTitles(all_books, queries, selected) ==
    IF queries = <<>> THEN selected
    ELSE SelectByTitles(all_books, Tail(queries),
                        AppendUnselected(selected, TitleMatches(all_books, Head(queries))))

\* A main that looks at --random first.
SelectionBranchMutRandomFirst(a) ==
    IF a.random THEN "random"
    ELSE IF a.book_id # <<>> THEN "id"
    ELSE IF a.book_title # <<>> THEN "title"
    ELSE "random"

\* `if args.book_id:` / `elif args.book_title:` /
\* `elif args.random or args.send_email:`
SelectionBranch(a) ==
    IF a.book_id # <<>> THEN "id"
    ELSE IF a.book_title # <<>> THEN "title"
    ELSE "random"

\* A check of the recipient alone.
MissingMailArgsMutRecipientOnly(a) == a.recipient = <<>>

\* `if not args.recipient:` and
\* `if not args.gmail_username or not args.gmail_app_password:`
MissingMailArgs(a) == a.recipient = <<>> \/ ~a.gmail

\* Whether the invocation selects at random: Calibre's third branch,
\* `elif args.random or args.send_email:`, is reached without --book-id and
\* --book-title; Zotero selects at random with --random.
RandomBranch ==
    IF script = "calibre" THEN args.book_id = <<>> /\ args.book_title = <<>>
    ELSE args.random

\* The identifiers the current invocation delivered at least once.
Delivered == {sends[k].id : k \in {j \in 1..Len(sends) : sends[j].ok}}

\* The identifier the current invocation chose at random, if it chose one.
RandomChoice ==
    IF RandomBranch /\ selected_books # <<>> THEN {selected_books[1].id} ELSE {}

\* args.tag of an email invocation: absent or --tag m.
MailTagArgs == {<<>>, <<<<"m">>>>}

\* The tags of the catalogue of the mailer: "Ma" on the books at odd
\* positions, "c" on the others.
MailBookTags(n) == [i \in 1..n |-> IF i % 2 = 1 THEN <<<<"M", "a">>>> ELSE <<<<"c">>>>]

InitMail ==
    /\ script \in Scripts
    /\ \E n \in 0..MaxBooks :
          /\ library = [i \in 1..n |-> [id |-> LibraryId(i)]]
          /\ book_tags = MailBookTags(n)
    /\ filtered_books = <<>>
    /\ fpc = "idle"
    /\ google_creds \in (IF script = "zotero" THEN BOOLEAN ELSE {FALSE})
    /\ sent_file = [exists |-> FALSE, content |-> <<>>]
    /\ args = NoArgs
    /\ selected_books = <<>>
    /\ send_idx = 0
    /\ sends = <<>>
    /\ picked = {}
    /\ emailed = {}
    /\ sent_at_start = {}
    /\ mpc = "idle"
    /\ exit_code = 0
    /\ RenderIdle
    /\ LocateIdle
    /\ ResolveIdle
    /\ ComposeIdle

MailExit(code) ==
    /\ mpc' = "exit"
    /\ exit_code' = code

\* One invocation of a script with --send-email.  Zotero is invoked with
\* --random; Calibre takes --book-id, --book-title and --random in any
\* combination.  An invocation without recipient or Gmail credentials ends
\* at the checks whatever its other options are, so it is drawn without
\* them; --tag is drawn with --book-id or alone, and --book-id together with
\* --book-title in the invocations that give --random as well.
MailStart ==
    /\ mpc \in {"idle", "exit"}
    /\ picked' = picked \cup RandomChoice
    /\ emailed' = emailed \cup Delivered
    /\ sent_at_start' = SentIds(sent_file)
    /\ selected_books' = <<>>
    /\ send_idx' = 0
    /\ sends' = <<>>
    /\ exit_code' = 0
    /\ mpc' = "checks"
    /\ UNCHANGED <<script, google_creds, library, sent_file>>
    /\ UNCHANGED nonMailVars
    /\ \E r \in RecipientLists : \E g \in BOOLEAN : \E bids \in BookIdLists :
       \E titles \in BookTitleLists : \E rnd \in BOOLEAN : \E t \in MailTagArgs :
          /\ script = "zotero" => (bids = <<>> /\ titles = <<>> /\ rnd /\ t = <<>>)
          /\ (script = "calibre" /\ (r = <<>> \/ ~g)) =>
                (bids = <<>> /\ titles = <<>> /\ ~rnd /\ t = <<>>)
          /\ t # <<>> => (titles = <<>> /\ ~rnd)
          /\ (bids # <<>> /\ titles # <<>>) => rnd
          /\ args' = [recipient |-> r, gmail |-> g, book_id |-> bids, book_title |-> titles,
                       random |-> rnd, tag |-> t]

\* `if not args.recipient: sys.exit(1)` and the check of the Gmail credentials.
MailChecks ==
    /\ mpc = "checks"
    /\ IF MissingMailArgs(args)
       THEN MailExit(1)
       ELSE /\ mpc' = "select"
            /\ exit_code' = exit_code
    /\ UNCHANGED <<script, google_creds, library, sent_file, args, selected_books,
                   send_idx, sends, picked, emailed, sent_at_start>>
    /\ UNCHANGED nonMailVars

\* Calibre, `if args.book_id:`, over main's `books`, the list left by the
\* tag filter.
SelectById ==
    /\ mpc = "select"
    /\ script = "calibre"
    /\ SelectionBranch(args) = "id"
    /\ LET sel == SelectByIds(FilteredBooks(library, book_tags, args.tag), args.book_id)
       IN  /\ selected_books' = sel
           /\ IF sel = <<>> THEN MailExit(1)
              ELSE /\ mpc' = "send"
                   /\ exit_code' = exit_code
    /\ UNCHANGED <<script, google_creds, library, sent_file, args, send_idx, sends,
                   picked, emailed, sent_at_start>>
    /\ UNCHANGED nonMailVars

\* Calibre, `elif args.book_title:`, over main's `books` too.
SelectByTitle ==
    /\ mpc = "select"
    /\ script = "calibre"
    /\ SelectionBranch(args) = "title"
    /\ LET sel == SelectByTitles(FilteredBooks(library, book_tags, args.tag),
                                 args.book_title, <<>>)
       IN  /\ selected_books' = sel
           /\ IF sel = <<>> THEN MailExit(1)
              ELSE /\ mpc' = "send"
                   /\ exit_code' = exit_code
    /\ UNCHANGED <<script, google_creds, library, sent_file, args, send_idx, sends,
                   picked, emailed, sent_at_start>>
    /\ UNCHANGED nonMailVars

\* Calibre, `elif args.random or args.send_email:` - select_random_book,
\* which fetches the whole catalogue again with list_calibre_books(conn).
SelectRandom ==
    /\ mpc = "select"
    /\ script = "calibre"
    /\ SelectionBranch(args) = "random"
    /\ LET unsent_books == UnsentBooks(library, SentIds(sent_file))
       IN  IF library = <<>> \/ unsent_books = <<>>
           THEN /\ MailExit(1)
                /\ UNCHANGED <<sent_file, selected_books>>
           ELSE \E k \in 1..Len(unsent_books) :
                   /\ sent_file' = AppendSent(sent_file, unsent_books[k].id)
                   /\ selected_books' = <<unsent_books[k]>>
                   /\ mpc' = "send"
                   /\ exit_code' = exit_code
    /\ UNCHANGED <<script, google_creds, library, args, send_idx, sends, picked,
                   emailed, sent_at_start>>
    /\ UNCHANGED nonMailVars

\* Calibre: one call of send_book_email in the loop over the selected records
\* and the recipients.  A failure is re-raised and ends main with status 1.
SendNext ==
    /\ mpc = "send"
    /\ script = "calibre"
    /\ send_idx < Len(selected_books) * Len(args.recipient)
    /\ \E ok \in BOOLEAN :
          LET b == selected_books[(send_idx \div Len(args.recipient)) + 1]
              r == args.recipient[(send_idx % Len(args.recipient)) + 1]
          IN  /\ sends' = Append(sends, [id |-> b.id, to |-> r, ok |-> ok])
              /\ send_idx' = send_idx + 1
              /\ IF ok THEN /\ mpc' = mpc
                            /\ exit_code' = exit_code
                 ELSE MailExit(1)
    /\ UNCHANGED <<script, google_creds, library, sent_file, args, selected_books,
                   picked, emailed, sent_at_start>>
    /\ UNCHANGED nonMailVars

\* Calibre: the loops are over, main returns.
SendDone ==
    /\ mpc = "send"
    /\ script = "calibre"
    /\ send_idx = Len(selected_books) * Len(args.recipient)
    /\ MailExit(0)
    /\ UNCHANGED <<script, google_creds, library, sent_file, args, selected_books,
                   send_idx, sends, picked, emailed, sent_at_start>>
    /\ UNCHANGED nonMailVars

\* Zotero, send_paper_by_email(random_paper=True): all_papers is what
\* get_items returns, the journal articles or nothing when the API call
\* failed; random.choice picks among all of them.
ZSelectRandom ==
    /\ mpc = "select"
    /\ script = "zotero"
    /\ \E all_papers \in {library, <<>>} :
          IF all_papers = <<>>
          THEN /\ MailExit(1)
               /\ UNCHANGED selected_books
          ELSE \E k \in 1..Len(all_papers) :
                  /\ selected_books' = <<all_papers[k]>>
                  /\ mpc' = "send"
                  /\ exit_code' = exit_code
    /\ UNCHANGED <<script, google_creds, library, sent_file, args, send_idx, sends,
                   picked, emailed, sent_at_start>>
    /\ UNCHANGED nonMailVars

\* Zotero, the rest of send_paper_by_email: no Google credentials or no
\* attachment ends without a message; else one message goes to all the
\* recipients and send_email_with_attachments reports whether it was sent.
ZSend ==
    /\ mpc = "send"
    /\ script = "zotero"
    /\ \E has_attachments \in BOOLEAN : \E ok \in BOOLEAN :
          IF ~google_creds \/ ~has_attachments
          THEN /\ MailExit(1)
               /\ UNCHANGED <<sends, send_idx>>
          ELSE /\ sends' = Append(sends, [id |-> selected_books[1].id,
                                          to |-> args.recipient, ok |-> ok])
               /\ send_idx' = send_idx + 1
               /\ MailExit(IF ok THEN 0 ELSE 1)
    /\ UNCHANGED <<script, google_creds, library, sent_file, args, selected_books,
                   picked, emailed, sent_at_start>>
    /\ UNCHANGED nonMailVars

NextMail ==
    \/ MailStart
    \/ MailChecks
    \/ SelectById
    \/ SelectByTitle
    \/ SelectRandom
    \/ SendNext
    \/ SendDone
    \/ ZSelectRandom
    \/ ZSend

SpecMail == InitMail /\ [][NextMail]_vars

(***************************************************************************)
(* Claims about the Selector/Mailer.                                       *)
(***************************************************************************)
\* C8: across sequential invocations of Calibre's select_random_book, the
\* identifier it returns was not in the sent-log when the invocation
\* started, is in the sent-log once it has returned, and was returned by no
\* earlier invocation.
C8_RandomNeverReselects ==
    script = "calibre" =>
       \A id \in RandomChoice :
          /\ Str(id) \notin sent_at_start
          /\ Str(id) \in SentIds(sent_file)
          /\ id \notin picked

\* Witness of C8: a Calibre invocation that started with a non-empty
\* sent-log has chosen a book at random after earlier invocations chose
\* others, and has ended.
C8_Witness ==
    /\ script = "calibre"
    /\ mpc = "exit"
    /\ RandomChoice # {}
    /\ Cardinality(picked) = 2
    /\ Cardinality(sent_at_start) = 2
    /\ Cardinality(SentIds(sent_file)) = 3

\* C9: Zotero's random-paper email mode never chooses an item that an
\* earlier random invocation emailed.
C9_RandomNeverRechoosesEmailed ==
    script = "zotero" => RandomChoice \cap emailed = {}

C10_Logged ==
    script = "calibre" =>
       /\ (RandomBranch /\ mpc = "send") => Str(selected_books[1].id) \in SentIds(sent_file)
       /\ RandomBranch => \A k \in 1..Len(sends) : Str(sends[k].id) \in SentIds(sent_file)
       /\ \A id \in picked : Str(id) \in SentIds(sent_file)
       /\ RandomChoice \cap (picked \ emailed) = {}

\* C10: in Calibre's random email mode the chosen identifier is in the
\* sent-log before the first send attempt and at every attempt, failed ones
\* included; no step ever removes an identifier from the sent-log, and a
\* book chosen earlier but never delivered is not chosen again.
C10_LoggedBeforeSendNoRollback ==
    /\ []C10_Logged
    /\ [][SentIds(sent_file) \subseteq SentIds(sent_file')]_vars

\* Witness of C10: a Calibre random invocation ended with status 1 on a
\* failed send, its book is in the sent-log, and it ran after an earlier
\* random invocation whose book was never delivered.
C10_Witness ==
    /\ script = "calibre"
    /\ RandomBranch
    /\ mpc = "exit"
    /\ exit_code = 1
    /\ sends # <<>>
    /\ ~sends[Len(sends)].ok
    /\ Delivered = {}
    /\ Str(selected_books[1].id) \in SentIds(sent_file)
    /\ picked \ emailed # {}

\* C11: when Calibre sends to several recipients, every selected record x
\* recipient pair gets a send attempt whatever the outcome of the earlier
\* attempts: an invocation that began sending ends with one attempt per pair.
C11_EveryPairAttempted ==
    (script = "calibre" /\ mpc = "exit" /\ sends # <<>>) =>
       Len(sends) = Len(selected_books) * Len(args.recipient)

\* C15: in Calibre's email mode with a tag filter, every book selected, by
\* id or at random, is one of the books the filter kept.
C15_SelectsAmongFiltered ==
    (script = "calibre" /\ Categories(args.tag) # <<>>) =>
       \A k \in 1..Len(selected_books) :
          \E i \in 1..Len(FilteredBooks(library, book_tags, args.tag)) :
             FilteredBooks(library, book_tags, args.tag)[i] = selected_books[k]

\* The lines of the sent-log.
SentLines(file) == FileLines(file.content, <<>>)

IsPrefix(a, b) == Len(a) <= Len(b) /\ SubSeq(b, 1, Len(a)) = a

\* C18: the sent-log is append-only: every step leaves the lines it held in
\* place, at the same positions, and an invocation adds at most one line to
\* the lines it found when it started.
C18_SentLogAppendOnly ==
    /\ [](Len(SentLines(sent_file)) <= Cardinality(sent_at_start) + 1)
    /\ [][IsPrefix(SentLines(sent_file), SentLines(sent_file'))]_vars

\* Witness of C18: a random invocation that found two lines in the sent-log
\* has appended a third.
C18_Witness ==
    /\ script = "calibre"
    /\ RandomBranch
    /\ mpc = "send"
    /\ Cardinality(sent_at_start) = 2
    /\ Len(SentLines(sent_file)) = 3
    /\ SentLines(sent_file)[3] = Append(Str(selected_books[1].id), NL)

\* The invocation gave no recipient, or no Gmail user name and password.
LacksRecipientOrCredentials(a) == a.recipient = <<>> \/ ~a.gmail

\* A step of Calibre's random selection.
RandomSelection ==
    /\ script = "calibre"
    /\ mpc = "select"
    /\ args.book_id = <<>>
    /\ args.book_title = <<>>

\* C27: with a sent-log that starts empty and a library of N books that does
\* not change, the first N random selections each succeed with a book no
\* earlier one chose; every later one returns no book and the invocation
\* exits with status 1, sends nothing and leaves the sent-log as it is.
C27_RandomExhaustsLibrary ==
    /\ [](script = "calibre" =>
            /\ Len(SentLines(sent_file)) = Cardinality(SentIds(sent_file))
            /\ Len(SentLines(sent_file)) <= Len(library)
            /\ \A id \in SentIds(sent_file) : \E i \in 1..Len(library) : Str(library[i].id) = id)
    /\ [][(RandomSelection /\ Len(SentLines(sent_file)) < Len(library)) =>
             /\ mpc' = "send"
             /\ Len(selected_books') = 1
             /\ Str(selected_books'[1].id) \notin SentIds(sent_file)
             /\ SentLines(sent_file') =
                   Append(SentLines(sent_file), Append(Str(selected_books'[1].id), NL))]_vars
    /\ [][(RandomSelection /\ Len(SentLines(sent_file)) = Len(library)) =>
             /\ mpc' = "exit"
             /\ exit_code' = 1
             /\ selected_books' = <<>>
             /\ sends' = <<>>
             /\ sent_file' = sent_file]_vars

\* Witness of C27: every book of a library of MaxBooks books is in the
\* sent-log and one more random invocation ended with status 1 and no book.
C27_Witness ==
    /\ script = "calibre"
    /\ Len(library) = MaxBooks
    /\ Cardinality(SentIds(sent_file)) = MaxBooks
    /\ sent_at_start = SentIds(sent_file)
    /\ ~LacksRecipientOrCredentials(args)
    /\ args.book_id = <<>>
    /\ args.book_title = <<>>
    /\ mpc = "exit"
    /\ exit_code = 1
    /\ selected_books = <<>>
    /\ sends = <<>>

\* C28: an email invocation of Calibre without a recipient, or without the
\* Gmail user name and app password, exits with status 1 before any book is
\* selected: nothing is sent and the sent-log is left as it is.
C28_MissingArgsExitBeforeSelection ==
    /\ [](( /\ script = "calibre"
            /\ LacksRecipientOrCredentials(args)
            /\ mpc \notin {"idle", "checks"}) =>
             /\ mpc = "exit"
             /\ exit_code = 1
             /\ selected_books = <<>>
             /\ sends = <<>>
             /\ SentIds(sent_file) = sent_at_start)
    /\ [][(script = "calibre" /\ LacksRecipientOrCredentials(args')) =>
             sent_file' = sent_file]_vars

\* Witness of C28: an invocation with a recipient but without Gmail
\* credentials ended with status 1, after an earlier invocation had logged a
\* book; the library still holds an unsent book.
C28_Witness ==
    /\ script = "calibre"
    /\ args.recipient # <<>>
    /\ ~args.gmail
    /\ mpc = "exit"
    /\ exit_code = 1
    /\ Cardinality(SentIds(sent_file)) = 1
    /\ Len(library) >= 2

\* main's `books`: the catalogue after the tag filter.
MainBooks == FilteredBooks(library, book_tags, args.tag)

SelectedIds == {selected_books[k].id : k \in 1..Len(selected_books)}

TitleQueryMatches(b) ==
    \E k \in 1..Len(args.book_title) :
       IsSubstring(LowerStr(args.book_title[k]), LowerStr(TitleOf(b.id)))

\* The invocation has passed the selection.
PastSelection ==
    /\ script = "calibre"
    /\ ~LacksRecipientOrCredentials(args)
    /\ mpc \in {"send", "exit"}

\* C29: book ids take precedence over title substrings and these over the
\* random selection.  With ids the books of those ids are selected, without
\* ids but with titles the books whose title contains one of the titles;
\* in both cases the sent-log is left as it is and does not restrict the
\* selection, whether --random is given or not, and an invocation none of
\* whose ids or titles matches exits with status 1 without sending.
C29_SelectionPrecedence ==
    /\ [](PastSelection =>
            /\ args.book_id # <<>> =>
                  SelectedIds = {args.book_id[k] : k \in 1..Len(args.book_id)}
                                   \cap {MainBooks[i].id : i \in 1..Len(MainBooks)}
            /\ (args.book_id = <<>> /\ args.book_title # <<>>) =>
                  /\ SelectedIds = {MainBooks[i].id :
                                       i \in {j \in 1..Len(MainBooks) : TitleQueryMatches(MainBooks[j])}}
                  /\ Len(selected_books) = Cardinality(SelectedIds)
            /\ ((args.book_id # <<>> \/ args.book_title # <<>>) /\ selected_books = <<>>) =>
                  /\ mpc = "exit"
                  /\ exit_code = 1
                  /\ sends = <<>>)
    /\ [][(script = "calibre" /\ (args'.book_id # <<>> \/ args'.book_title # <<>>)) =>
             sent_file' = sent_file]_vars

\* Witness of C29: an invocation with --book-id, --book-title and --random
\* delivered the book of the given id, which the sent-log already named,
\* and left the sent-log as it was.
C29_Witness ==
    /\ script = "calibre"
    /\ args.book_id = <<LibraryId(1)>>
    /\ args.book_title # <<>>
    /\ args.random
    /\ mpc = "exit"
    /\ exit_code = 0
    /\ SelectedIds = {LibraryId(1)}
    /\ Str(LibraryId(1)) \in sent_at_start
    /\ SentIds(sent_file) = sent_at_start

\* The other cases of C29: titles without ids selected two books once each
\* though two queries match one of them; and no title matched.
C29_WitnessTitles ==
    /\ PastSelection
    /\ args.book_id = <<>>
    /\ Len(args.book_title) = 2
    /\ Len(selected_books) = 2
    /\ mpc = "exit"
    /\ exit_code = 0

C29_WitnessNoMatch ==
    /\ PastSelection
    /\ args.book_id = <<>>
    /\ args.book_title # <<>>
    /\ args.random
    /\ Len(library) >= 1
    /\ selected_books = <<>>
    /\ exit_code = 1

(***************************************************************************)
(* The message composer: what Calibre's send_book_email and Zotero's       *)
(* send_paper_by_email put into the message for the descriptors that       *)
(* get_attachment_paths returned.                                          *)
(***************************************************************************)
\* `20 * 1024 * 1024`, in bytes.
SizeLimit == 20 * 1024 * 1024

FileSizes == {1, SizeLimit, SizeLimit + 1}

\* The shapes of a Drive URL: .../file/d/ID/view, .../spreadsheets/d/ID/edit
\* and .../drive/folders/ID.
UrlForms == {"file", "spreadsheet", "folder"}

\* A descriptor with its Drive URL, the size Drive reports for the file, and
\* whether fetching it (metadata and content) succeeds.
DriveFiles == [drive_url : {None} \cup UrlForms, size : FileSizes, fetch_ok : BOOLEAN]

\* Calibre: re.search(r'/d/([a-zA-Z0-9_-]+)') or re.search(r'id=([a-zA-Z0-9_-]+)').
CalibreFileId(url) == url \in {"file", "spreadsheet"}

\* Zotero, extract_file_id_from_drive_url: /file/d/ID, [?&]id=ID, /document/d/ID.
ZoteroFileId(url) == url = "file"

\* A size test that rejects a file of exactly the limit.
WithinLimitMutStrict(size) == size < SizeLimit

\* `if file_size <= 20 * 1024 * 1024`
WithinLimit(size) == size <= SizeLimit

\* Calibre, the loop `for attachment in attachments` of send_book_email: the
\* index of the file attached (the loop breaks there), or 0.  A descriptor
\* without URL or file id, a file over the limit, and a fetch that raises
\* (caught) all leave the loop running.
RECURSIVE AttachFirst(_, _)
AttachFirst(files, i) ==
    IF i > Len(files) THEN 0
    ELSE IF /\ files[i].drive_url # None
            /\ CalibreFileId(files[i].drive_url)
            /\ files[i].fetch_ok
            /\ WithinLimit(files[i].size)
    THEN i
    ELSE AttachFirst(files, i + 1)

\* The indices of a set, as a sequence in increasing order.
RECURSIVE Indices(_)
Indices(S) ==
    IF S = {} THEN <<>>
    ELSE LET i == CHOOSE x \in S : \A y \in S : x <= y
         IN  <<i>> \o Indices(S \ {i})

\* Calibre, send_book_email: the parts and the body of the message.
BookMessage(creds, files) ==
    LET attached == IF creds THEN AttachFirst(files, 1) ELSE 0
        drive_links == IF attached = 0 /\ files # <<>>
                       THEN Indices({i \in 1..Len(files) : files[i].drive_url # None})
                       ELSE <<>>
    IN  [parts |-> IF attached = 0 THEN <<>> ELSE <<attached>>,
         links |-> drive_links,
         links_section |-> drive_links # <<>>]

\* Zotero: the descriptors that become attachment items of paper_info.
PaperItems(files) ==
    Indices({i \in 1..Len(files) :
                files[i].drive_url # None /\ ZoteroFileId(files[i].drive_url)})

\* Zotero: total_size, the sizes of the files downloaded.
RECURSIVE TotalSize(_, _)
TotalSize(files, items) ==
    IF items = <<>> THEN 0
    ELSE (IF files[Head(items)].fetch_ok THEN files[Head(items)].size ELSE 0)
         + TotalSize(files, Tail(items))

\* A threshold test that never fires.
ExceedSizeLimitMutNever(total_size) == FALSE

\* `exceed_size_limit = total_size > size_limit`
ExceedSizeLimit(total_size) == total_size > SizeLimit

\* Zotero, send_paper_by_email: the parts and the body of the message.  The
\* body lists the links only when it is built here (`if not body:`).
PaperMessage(files, body) ==
    LET items == PaperItems(files)
        exceed == ExceedSizeLimit(TotalSize(files, items))
    IN  [parts |-> IF exceed THEN <<>>
                   ELSE SelectSeq(items, LAMBDA i : files[i].fetch_ok),
         links |-> IF body = "custom" THEN <<>>
                   ELSE SelectSeq(items, LAMBDA i : exceed \/ ~files[i].fetch_ok),
         links_section |-> FALSE]

InitCompose ==
    /\ script \in Scripts
    /\ google_creds \in BOOLEAN
    /\ send_opts \in (IF script = "zotero"
                      THEN [papers_found : BOOLEAN, delete_after_send : BOOLEAN]
                      ELSE {NoSendOpts})
    /\ \E n \in 0..MaxAttachments : drive_files \in [1..n -> DriveFiles]
    /\ ~google_creds => \A i \in 1..Len(drive_files) : drive_files[i].drive_url = None
    /\ ~send_opts.papers_found => drive_files = <<>>
    /\ email_body \in (IF script = "zotero" THEN {"default", "custom"} ELSE {"default"})
    /\ msg = NoMessage
    /\ disk = {}
    /\ relay_accepted = FALSE
    /\ result = "none"
    /\ cpc = "build"
    /\ exit_code = 0
    /\ RenderIdle
    /\ LocateIdle
    /\ ResolveIdle
    /\ MailIdle
    /\ FilterIdle

\* Calibre, send_book_email up to msg.attach(MIMEText(body)).
BuildBookMessage ==
    /\ cpc = "build"
    /\ script = "calibre"
    /\ msg' = BookMessage(google_creds, drive_files)
    /\ cpc' = "send"
    /\ UNCHANGED <<script, google_creds, exit_code, drive_files, email_body, send_opts,
                   disk, relay_accepted, result>>
    /\ UNCHANGED nonComposeVars

\* Zotero: the temporary files download_file_from_drive wrote, one per
\* attachment item whose download succeeded (downloaded_files).
DownloadedFiles(files) == {i \in 1..Len(files) : /\ files[i].drive_url # None
                                                 /\ ZoteroFileId(files[i].drive_url)
                                                 /\ files[i].fetch_ok}

\* Zotero, send_paper_by_email up to the message.  It returns False, and
\* main exits 1, when no paper was found, when there are no Google
\* credentials (both before any download), and when the papers have no
\* attachment item at all.
BuildPaperMessage ==
    /\ cpc = "build"
    /\ script = "zotero"
    /\ IF ~send_opts.papers_found \/ ~google_creds \/ PaperItems(drive_files) = <<>>
       THEN /\ cpc' = "done"
            /\ result' = "False"
            /\ exit_code' = 1
            /\ UNCHANGED <<msg, disk>>
       ELSE /\ msg' = PaperMessage(drive_files, email_body)
            /\ disk' = DownloadedFiles(drive_files)
            /\ cpc' = "send"
            /\ UNCHANGED <<result, exit_code>>
    /\ UNCHANGED <<script, google_creds, drive_files, email_body, send_opts, relay_accepted>>
    /\ UNCHANGED nonComposeVars

\* The outcomes of an SMTP session: every call went through; a call up to
\* and including sendmail raised; sendmail went through and quit raised.
SmtpOutcomes == {"ok", "send_failed", "quit_failed"}

\* A send_email_with_attachments without its except clause.
TransportFailureResultMutRaises(scr) == "raised"

\* What a failed SMTP session makes the send function do: Calibre's
\* send_book_email re-raises, Zotero's send_email_with_attachments returns
\* False.
TransportFailureResult(scr) == IF scr = "calibre" THEN "raised" ELSE "False"

\* A clean-up that is skipped when the send failed.
CleanUpMutOnlyOnSuccess(files, delete_after_send, sent) ==
    IF delete_after_send /\ sent THEN {} ELSE files

\* Zotero: `if delete_after_send and downloaded_files: os.remove(...)`.
CleanUp(files, delete_after_send, sent) == IF delete_after_send THEN {} ELSE files

\* The SMTP session and what follows it.  Zotero's session ends with
\* server.quit() inside the same try, then the temporary files are cleaned
\* up and the result of the send is returned; main exits 1 on False.
\* Calibre keeps no file on disk and exits 1 through the re-raised exception.
SmtpSend ==
    /\ cpc = "send"
    /\ \E outcome \in SmtpOutcomes :
          /\ script = "calibre" => outcome # "quit_failed"
          /\ relay_accepted' = (outcome # "send_failed")
          /\ result' = IF outcome = "ok" THEN "True" ELSE TransportFailureResult(script)
          /\ cpc' = IF outcome = "ok" THEN "sent" ELSE "failed"
          /\ exit_code' = IF outcome = "ok" THEN 0 ELSE 1
          /\ disk' = IF script = "zotero"
                     THEN CleanUp(disk, send_opts.delete_after_send, outcome = "ok")
                     ELSE disk
    /\ UNCHANGED <<script, google_creds, drive_files, email_body, msg, send_opts>>
    /\ UNCHANGED nonComposeVars

NextCompose ==
    \/ BuildBookMessage
    \/ BuildPaperMessage
    \/ SmtpSend

SpecCompose == InitCompose /\ [][NextCompose]_vars

(***************************************************************************)
(* Claims about the message composer.                                      *)
(***************************************************************************)
\* The least element of a set of indices, 0 for the empty set.
FirstIndex(S) == IF S = {} THEN 0 ELSE CHOOSE i \in S : \A j \in S : i <= j

\* The descriptors Zotero downloads, and the bytes it downloaded.
Downloadable == {i \in 1..Len(drive_files) : drive_files[i].drive_url = "file"}

RECURSIVE SumSizes(_)
SumSizes(S) ==
    IF S = {} THEN 0
    ELSE LET i == CHOOSE x \in S : TRUE
         IN  drive_files[i].size + SumSizes(S \ {i})

Downloaded == {i \in Downloadable : drive_files[i].fetch_ok}

\* The elements of a sequence of indices.
Range(seq) == {seq[k] : k \in 1..Len(seq)}

\* C12: a message Zotero's send_paper_by_email sent has, when the downloaded
\* attachments total more than 20 MiB, no binary part and the Drive link of
\* every attachment in its body; when they total at most 20 MiB, one binary
\* part per downloaded file.
C12_OversizeSendsLinksOnly ==
    (script = "zotero" /\ cpc = "sent") =>
       IF SumSizes(Downloaded) > 20 * 1024 * 1024
       THEN /\ msg.parts = <<>>
            /\ Range(msg.links) = Downloadable
       ELSE /\ Range(msg.parts) = Downloaded
            /\ Len(msg.parts) = Cardinality(Downloaded)

\* The first descriptor, in format order, with a Drive URL that holds a file
\* id and a size of at most 20 MiB.
FirstEligible ==
    FirstIndex({i \in 1..Len(drive_files) :
                   /\ drive_files[i].drive_url \in {"file", "spreadsheet"}
                   /\ drive_files[i].size <= 20 * 1024 * 1024})

\* The same, among the descriptors whose file could be fetched.
FirstFetched ==
    FirstIndex({i \in 1..Len(drive_files) :
                   /\ drive_files[i].drive_url \in {"file", "spreadsheet"}
                   /\ drive_files[i].size <= 20 * 1024 * 1024
                   /\ drive_files[i].fetch_ok})

\* The body has the Google Drive Links section exactly when nothing was
\* attached and some descriptor has a Drive URL.
LinksSectionRule ==
    msg.links_section <=>
       (msg.parts = <<>> /\ \E i \in 1..Len(drive_files) : drive_files[i].drive_url # None)

\* C13 as stated: a message built by Calibre's send_book_email carries at
\* most one binary part, the first attachment in format order that has a
\* Drive URL with a file id and a size of at most 20 MiB, and the Google
\* Drive Links section appears exactly when no file was attached and some
\* attachment has a Drive URL.
C13_FirstEligibleAttached ==
    (script = "calibre" /\ cpc \in {"send", "sent", "failed"}) =>
       /\ msg.parts = (IF FirstEligible = 0 THEN <<>> ELSE <<FirstEligible>>)
       /\ LinksSectionRule

\* C13, amended: the part attached is the first such attachment whose
\* metadata and content could be fetched from Drive; a failed fetch is
\* skipped and the next attachment is tried.
C13_FirstFetchedAttached ==
    (script = "calibre" /\ cpc \in {"send", "sent", "failed"}) =>
       /\ Len(msg.parts) <= 1
       /\ msg.parts = (IF FirstFetched = 0 THEN <<>> ELSE <<FirstFetched>>)
       /\ LinksSectionRule

\* Witness of C13: the first attachment is eligible but its fetch failed,
\* the second is a file of exactly 20 MiB and is the one attached.
C13_Witness ==
    /\ script = "calibre"
    /\ cpc = "sent"
    /\ Len(drive_files) = 2
    /\ FirstEligible = 1
    /\ drive_files[2].size = 20 * 1024 * 1024
    /\ msg.parts = <<2>>
    /\ ~msg.links_section

(***************************************************************************)
(* Concurrent invocations of Calibre's random mode.  select_random_book    *)
(* reads sent_books.txt, and later appends to it, without any lock: the    *)
(* read and the append of one invocation are separate steps, and steps of  *)
(* the other invocation may fall between them.                             *)
(***************************************************************************)
nonRaceVars == <<pagingVars, script, exit_code, google_creds, pdf, renderVars, locateVars, resolveVars,
                 composeVars, filterVars, library, args, selected_books, send_idx, sends,
                 picked, emailed, sent_at_start, mpc>>

InitRace ==
    /\ script = "calibre"
    /\ \E n \in 0..(MaxBooks - 1) : library = [i \in 1..n |-> [id |-> LibraryId(i)]]
    /\ sent_file = [exists |-> FALSE, content |-> <<>>]
    /\ procs = [p \in Procs |-> NoProc]
    /\ appends = <<>>
    /\ PagingIdle
    /\ google_creds = FALSE
    /\ exit_code = 0
    /\ pdf = NoPdf
    /\ args = NoArgs
    /\ selected_books = <<>>
    /\ send_idx = 0
    /\ sends = <<>>
    /\ picked = {}
    /\ emailed = {}
    /\ sent_at_start = {}
    /\ mpc = "idle"
    /\ output_format = "text"
    /\ books = <<>>
    /\ submitted = 0
    /\ future = <<>>
    /\ future_result = <<>>
    /\ formatted_books = <<>>
    /\ output = <<>>
    /\ rpc = "idle"
    /\ LocateIdle
    /\ ResolveIdle
    /\ ComposeIdle
    /\ FilterIdle

\* An invocation with --send-email and valid arguments reaches
\* select_random_book.
RaceStart(p) ==
    /\ procs[p].pc \in {"idle", "exit"}
    /\ procs' = [procs EXCEPT ![p] = [NoProc EXCEPT !.pc = "read"]]
    /\ UNCHANGED <<sent_file, appends>>
    /\ UNCHANGED nonRaceVars

\* select_random_book up to unsent_books: the file is read into sent_ids;
\* without any unsent book the function returns None and main exits 1.
RaceRead(p) ==
    /\ procs[p].pc = "read"
    /\ LET ids == SentIds(sent_file)
       IN  procs' = [procs EXCEPT ![p].sent_ids = ids,
                                  ![p].read_lines = Len(FileLines(sent_file.content, <<>>)),
                                  ![p].pc = IF UnsentBooks(library, ids) = <<>>
                                            THEN "exit" ELSE "choose"]
    /\ UNCHANGED <<sent_file, appends>>
    /\ UNCHANGED nonRaceVars

\* random.choice(unsent_books), then the append of the chosen identifier.
RaceAppend(p) ==
    /\ procs[p].pc = "choose"
    /\ LET unsent_books == UnsentBooks(library, procs[p].sent_ids)
       IN  \E k \in 1..Len(unsent_books) :
              /\ sent_file' = AppendSent(sent_file, unsent_books[k].id)
              /\ appends' = Append(appends, procs[p].read_lines)
              /\ procs' = [procs EXCEPT ![p].selected_book = <<unsent_books[k]>>,
                                        ![p].pc = "send"]
    /\ UNCHANGED nonRaceVars

\* send_book_email for the chosen book.
RaceSend(p) ==
    /\ procs[p].pc = "send"
    /\ \E ok \in BOOLEAN :
          procs' = [procs EXCEPT ![p].delivered = ok, ![p].pc = "exit"]
    /\ UNCHANGED <<sent_file, appends>>
    /\ UNCHANGED nonRaceVars

NextRace ==
    \E p \in Procs :
       \/ RaceStart(p)
       \/ RaceRead(p)
       \/ RaceAppend(p)
       \/ RaceSend(p)

SpecRace == InitRace /\ [][NextRace]_vars

\* C19: two concurrent invocations of Calibre's random selection can race.
\* An identifier is written to the sent-log a second time only by an
\* invocation that read the log before the first line with that identifier
\* was appended, and no identifier is written more often than there are
\* concurrent invocations.
C19_DuplicateOnlyByRace ==
    LET lines == FileLines(sent_file.content, <<>>)
    IN  /\ Len(appends) = Len(lines)
        /\ \A i \in 1..Len(lines) : \A j \in 1..Len(lines) :
              (i < j /\ lines[i] = lines[j]) => appends[j] < i
        /\ \A i \in 1..Len(lines) :
              Cardinality({j \in 1..Len(lines) : lines[j] = lines[i]}) <= Cardinality(Procs)

\* Witness of C19: both invocations read the empty sent-log, both selected
\* the same book, its identifier is in the sent-log twice and both emails
\* were delivered.
C19_Witness ==
    /\ Len(library) >= 1
    /\ \A p \in Procs :
          /\ procs[p].pc = "exit"
          /\ procs[p].read_lines = 0
          /\ procs[p].selected_book = <<library[1]>>
          /\ procs[p].delivered
    /\ FileLines(sent_file.content, <<>>) =
          <<Append(Str(library[1].id), NL), Append(Str(library[1].id), NL)>>

(***************************************************************************)
(* Claims about Zotero's send_paper_by_email.                              *)
(***************************************************************************)
\* Whether send_paper_by_email got as far as the SMTP session.
SendAttempted == cpc \in {"sent", "failed"}

\* No paper, no Google credentials, or no attachment with a Drive file id.
NothingToSend ==
    \/ ~send_opts.papers_found
    \/ ~google_creds
    \/ \A i \in 1..Len(drive_files) : drive_files[i].drive_url # "file"

\* The parts of C21 about failures and early returns.
C21_Returns ==
    /\ result # "raised"
    /\ SendAttempted => ~NothingToSend
    /\ (NothingToSend /\ cpc # "build") => (result = "False" /\ cpc = "done")

LocalAttachmentRows(db_state) ==
    IF db_state = "rows" THEN <<"L1", "L2">> ELSE <<>>

\* zot.children(item['key']): attachments and other children, in order.
Child(key, type, content) == [key |-> key, itemType |-> type, contentType |-> content]

Children(api) ==
    CASE api = "rows" -> <<Child("A1", "attachment", "application/pdf"),
                           Child("N1", "note", "none"),
                           Child("A2", "attachment", "image/png"),
                           Child("A3", "attachment", "application/epub+zip")>>
      [] api = "notes_only" -> <<Child("N1", "note", "none")>>
      [] OTHER -> <<>>

SupportedTypes == {"application/pdf", "image/vnd.djvu", "application/epub+zip", "text/plain"}

\* `itemType == 'attachment' and 'contentType' in data` and
\* `content_type in [...]`.
RECURSIVE SupportedChildren(_)
SupportedChildren(children) ==
    IF children = <<>> THEN <<>>
    ELSE IF Head(children).itemType = "attachment" /\ Head(children).contentType \in SupportedTypes
    THEN <<Head(children).key>> \o SupportedChildren(Tail(children))
    ELSE SupportedChildren(Tail(children))

\* The descriptor of one attachment; `origin` records where its row came from.
Descriptor(key, origin, url) == [local_path |-> key, origin |-> origin, drive_url |-> url]

\* The Drive lookup of one file name inside its own try/except: no URL
\* without credentials, when the search fails or when it finds nothing.
LookupOutcomes == {"error", "none", "found"}
DriveUrlOf(creds, outcome, key) == IF creds /\ outcome = "found" THEN <<"link", key>> ELSE None

\* A local branch that falls through to the API after building its rows.
ReturnsLocalRowsMutFallsThrough == FALSE

\* `return attachment_info` at the end of `if rows:`.
ReturnsLocalRows == TRUE

InitAttach ==
    /\ script = "zotero"
    /\ google_creds \in BOOLEAN
    /\ local_db \in [1..NumLocalPaths -> DbStates]
    /\ api_state \in ApiStates
    /\ func = "none"
    /\ drive_db = "unknown"
    /\ queried = <<>>
    /\ opened = <<>>
    /\ src_result = [s \in Sources |-> <<>>]
    /\ loc_result = <<>>
    /\ loc_exc = "none"
    /\ lpc = "idle"
    /\ attachments = <<>>
    /\ attachment_info = <<>>
    /\ search_log = <<>>
    /\ apc = "local"
    /\ exit_code = 0
    /\ RenderIdle
    /\ MailIdle
    /\ ComposeIdle
    /\ FilterIdle

attachFrame ==
    <<script, google_creds, local_db, api_state, func, drive_db, src_result, loc_result,
      loc_exc, lpc, raceVars, pagingVars, pdf, exit_code, renderVars, mailVars, composeVars, filterVars>>

\* The local try block up to `rows = cur.fetchall()`: the first existing
\* candidate is opened; a query that raises and an empty row set both lead
\* to the API.
AttachQueryLocal ==
    /\ apc = "local"
    /\ LET p == FirstExisting(local_db)
       IN  /\ opened' = IF p = 0 THEN opened ELSE Append(opened, p)
           /\ queried' = IF p = 0 THEN queried ELSE Append(queried, "local")
           /\ attachments' = IF p = 0 THEN <<>> ELSE LocalAttachmentRows(local_db[p])
           /\ apc' = IF p # 0 /\ LocalAttachmentRows(local_db[p]) # <<>>
                     THEN "local_rows" ELSE "api"
    /\ UNCHANGED <<attachment_info, search_log>>
    /\ UNCHANGED attachFrame

\* One iteration of `for row in rows`.
AttachLocalRow ==
    /\ apc = "local_rows"
    /\ attachments # <<>>
    /\ \E outcome \in LookupOutcomes :
          /\ attachment_info' = Append(attachment_info,
                Descriptor(Head(attachments), "local",
                           DriveUrlOf(google_creds, outcome, Head(attachments))))
          /\ search_log' = Append(search_log, IF google_creds THEN {outcome} ELSE {})
    /\ attachments' = Tail(attachments)
    /\ UNCHANGED <<queried, opened, apc>>
    /\ UNCHANGED attachFrame

\* The end of `if rows:`.
AttachLocalReturn ==
    /\ apc = "local_rows"
    /\ attachments = <<>>
    /\ apc' = IF ReturnsLocalRows THEN "done" ELSE "api"
    /\ UNCHANGED <<queried, opened, attachments, attachment_info, search_log>>
    /\ UNCHANGED attachFrame

\* `attachments = zot.children(item['key'])`; when it raises, the except
\* clause prints and the descriptors built so far are returned.
AttachQueryApi ==
    /\ apc = "api"
    /\ queried' = Append(queried, "api")
    /\ attachments' = IF api_state = "error" THEN <<>>
                      ELSE SupportedChildren(Children(api_state))
    /\ apc' = IF api_state = "error" THEN "done" ELSE "api_rows"
    /\ UNCHANGED <<opened, attachment_info, search_log>>
    /\ UNCHANGED attachFrame

\* One supported child of `for attachment in attachments`.
AttachApiRow ==
    /\ apc = "api_rows"
    /\ attachments # <<>>
    /\ \E outcome \in LookupOutcomes :
          /\ attachment_info' = Append(attachment_info,
                Descriptor(Head(attachments), "api",
                           DriveUrlOf(google_creds, outcome, Head(attachments))))
          /\ search_log' = Append(search_log, IF google_creds THEN {outcome} ELSE {})
    /\ attachments' = Tail(attachments)
    /\ UNCHANGED <<queried, opened, apc>>
    /\ UNCHANGED attachFrame

\* The final `return attachment_info`.
AttachApiReturn ==
    /\ apc = "api_rows"
    /\ attachments = <<>>
    /\ apc' = "done"
    /\ UNCHANGED <<queried, opened, attachments, attachment_info, search_log>>
    /\ UNCHANGED attachFrame

NextAttach ==
    \/ AttachQueryLocal
    \/ AttachLocalRow
    \/ AttachLocalReturn
    \/ AttachQueryApi
    \/ AttachApiRow
    \/ AttachApiReturn

SpecAttach == InitAttach /\ [][NextAttach]_vars

(***************************************************************************)
(* Claims about the origin of Zotero's attachments.                        *)
(***************************************************************************)
Keys(info) == [k \in 1..Len(info) |-> info[k].local_path]
Origins(info) == {info[k].origin : k \in 1..Len(info)}
LocalHasRows ==
    /\ FirstExisting(local_db) # 0
    /\ LocalAttachmentRows(local_db[FirstExisting(local_db)]) # <<>>

\* C24: get_attachment_paths returns the attachments of exactly one origin:
\* when the first existing local database has a supported attachment row,
\* the local rows are returned and the API's children are never requested;
\* otherwise only the API's supported attachments are returned; local and
\* API attachments are never mixed.
C24_SingleOrigin ==
    /\ Cardinality(Origins(attachment_info)) <= 1
    /\ LocalHasRows =>
          /\ \A k \in 1..Len(queried) : queried[k] # "api"
          /\ apc = "done" =>
                /\ Keys(attachment_info) = LocalAttachmentRows(local_db[FirstExisting(local_db)])
                /\ Origins(attachment_info) = {"local"}
    /\ ~LocalHasRows =>
          /\ Origins(attachment_info) \subseteq {"api"}
          /\ apc = "done" =>
                /\ queried[Len(queried)] = "api"
                /\ Keys(attachment_info) = SupportedChildren(Children(api_state))

\* Witness of C24: the first existing database holds attachment rows while
\* the API has supported children too, and the call returned the two local
\* rows.
C24_Witness ==
    /\ apc = "done"
    /\ local_db[1] = "absent"
    /\ local_db[2] = "rows"
    /\ api_state = "rows"
    /\ Keys(attachment_info) = <<"L1", "L2">>

\* The other case of C24: the first existing database has no row for the
\* item though a later candidate has, and the API's two supported children
\* were returned.
C24_WitnessApi ==
    /\ apc = "done"
    /\ local_db[1] = "empty"
    /\ local_db[2] = "rows"
    /\ Keys(attachment_info) = <<"A1", "A3">>

(***************************************************************************)
(* The file name of a Calibre format row: the first lines of the loop of   *)
(* get_attachment_paths.  Strings are sequences of characters.             *)
(***************************************************************************)
MaxNameLen == 3

DOT == "."
NameChars == {"a", "m", "A", "M", DOT}

\* data.name of a format row: every string up to MaxNameLen characters.
RECURSIVE StringsUpTo(_)
StringsUpTo(n) ==
    IF n = 0 THEN {<<>>}
    ELSE StringsUpTo(n - 1) \cup
         {Append(str, ch) : str \in {t \in StringsUpTo(n - 1) : Len(t) = n - 1}, ch \in NameChars}

\* data.format of a format row.
Formats == {<<"M">>, <<"m">>, <<"A", "M">>}

\* str.endswith
EndsWith(str, suffix) ==
    /\ Len(suffix) <= Len(str)
    /\ SubSeq(str, Len(str) - Len(suffix) + 1, Len(str)) = suffix

\* `filename.lower().endswith(f".{ext}")`
HasExtension(name, ext) == EndsWith(LowerStr(name), <<DOT>> \o ext)

\* ext = fmt['format'].lower(); filename = fmt['name'], with `.ext` appended
\* when the test fails.
LookupFilename(fmt) ==
    LET ext == LowerStr(fmt.format)
    IN  IF ~HasExtension(fmt.name, ext) THEN fmt.name \o <<DOT>> \o ext ELSE fmt.name

InitName ==
    /\ script = "calibre"
    /\ google_creds \in BOOLEAN
    /\ \E name \in StringsUpTo(MaxNameLen) : \E format \in Formats :
          attachments = <<[name |-> name, format |-> format]>>
    /\ attachment_info = <<>>
    /\ search_log = <<>>
    /\ apc = "name"
    /\ exit_code = 0
    /\ RenderIdle
    /\ LocateIdle
    /\ MailIdle
    /\ ComposeIdle
    /\ FilterIdle

\* The file name the Drive lookup of the row is made with.
BuildFilename ==
    /\ apc = "name"
    /\ attachment_info' = <<[filename |-> LookupFilename(attachments[1]), drive_url |-> None]>>
    /\ apc' = "named"
    /\ UNCHANGED <<script, google_creds, attachments, search_log>>
    /\ UNCHANGED nonResolveVars

NextName == BuildFilename

SpecName == InitName /\ [][NextName]_vars

(***************************************************************************)
(* Claims about the file name of a format row.                             *)
(***************************************************************************)
LowerExt(fmt) == <<DOT>> \o LowerStr(fmt.format)

\* C26: the file name used for the cloud lookup ends with the lower-cased
\* format extension, and the extension is appended exactly when the stored
\* name does not already end with it.
C26_EndsWithLowerExtension ==
    apc = "named" =>
       LET fmt == attachments[1]
           filename == attachment_info[1].filename
       IN  /\ EndsWith(filename, LowerExt(fmt))
           /\ (filename # fmt.name) <=> ~EndsWith(fmt.name, LowerExt(fmt))
           /\ filename \in {fmt.name, fmt.name \o LowerExt(fmt)}

\* What the code does guarantee: the name ends with the extension up to
\* letter case, and the lower-cased extension is appended exactly when the
\* stored name does not end with it up to letter case.
C26_EndsWithExtensionIgnoringCase ==
    apc = "named" =>
       LET fmt == attachments[1]
           filename == attachment_info[1].filename
       IN  /\ EndsWith(LowerStr(filename), LowerExt(fmt))
           /\ (filename # fmt.name) <=> ~EndsWith(LowerStr(fmt.name), LowerExt(fmt))
           /\ filename \in {fmt.name, fmt.name \o LowerExt(fmt)}

\* The failing row of C26: a stored name that already ends with the
\* extension in upper case is looked up as it is.
C26_Witness ==
    /\ apc = "named"
    /\ attachments[1] = [name |-> <<"a", DOT, "M">>, format |-> <<"M">>]
    /\ attachment_info[1].filename = <<"a", DOT, "M">>

(***************************************************************************)
(* The paging loop of search_file_in_drive, one request of a page per      *)
(* step.  Drive may answer a page with fewer files than pageSize, or none, *)
(* and still hand out a nextPageToken.                                     *)
(***************************************************************************)
MaxPages == 3
MaxResults == 2

\* The files of the pages before page k, counted.
RECURSIVE FilesBefore(_, _)
FilesBefore(lens, k) == IF k <= 1 THEN 0 ELSE FilesBefore(lens, k - 1) + lens[k - 1]

\* The chain of pages whose k-th page holds lens[k] files: the files are
\* numbered in the order Drive lists them.
PagesOf(lens) ==
    [k \in DOMAIN lens |-> [j \in 1..lens[k] |-> FilesBefore(lens, k) + j]]

\* What the sharedWithMe query may list: nothing, a file the paged query
\* does not list, or the first file of the paged query followed by it.
SharedAnswers == {<<>>, <<100>>, <<1, 100>>}

\* A loop that goes on until Drive hands out no further token.
StopPagingMutUntilNoToken(token, collected, max_results) == token = NoToken

\* `if page_token is None or len(results) >= max_results: break`
StopPaging(token, collected, max_results) ==
    token = NoToken \/ collected >= max_results

InitPaging ==
    /\ script \in Scripts
    /\ \E max_results \in 1..MaxResults : \E n \in 1..MaxPages :
       \E lens \in [1..n -> 0..max_results] :
       \E inc \in BOOLEAN : \E folder \in BOOLEAN :
          /\ drive_pages = PagesOf(lens)
          /\ search_params = [max_results |-> max_results, include_shared |-> inc,
                              folder_id |-> folder]
    /\ shared_files \in SharedAnswers
    /\ search_results = <<>>
    /\ page_token = NoToken
    /\ requests = 0
    /\ spc = "loop"
    /\ google_creds = TRUE
    /\ exit_code = 0
    /\ procs = [p \in Procs |-> NoProc]
    /\ appends = <<>>
    /\ pdf = NoPdf
    /\ output_format = "text"
    /\ books = <<>>
    /\ submitted = 0
    /\ future = <<>>
    /\ future_result = <<>>
    /\ formatted_books = <<>>
    /\ output = <<>>
    /\ rpc = "idle"
    /\ LocateIdle
    /\ ResolveIdle
    /\ MailIdle
    /\ ComposeIdle
    /\ FilterIdle

nonPagingVars ==
    <<script, exit_code, google_creds, pdf, raceVars, renderVars, locateVars, resolveVars,
      mailVars, composeVars, filterVars>>

\* One iteration of `while True`: the page named by page_token is requested
\* and appended, the shared files are added while fewer than max_results
\* files are held and no folder was found, and the loop ends or goes on.
RequestPage ==
    /\ spc = "loop"
    /\ LET k == IF page_token = NoToken THEN 1 ELSE page_token
           max_results == search_params.max_results
           r1 == search_results \o drive_pages[k]
           r2 == IF search_params.include_shared /\ Len(r1) < max_results
                    /\ ~search_params.folder_id
                 THEN AppendNew(r1, Page(shared_files, 1, max_results - Len(r1)))
                 ELSE r1
           token == IF k < Len(drive_pages) THEN k + 1 ELSE NoToken
       IN  /\ search_results' = r2
           /\ page_token' = token
           /\ requests' = requests + 1
           /\ spc' = IF StopPaging(token, Len(r2), max_results) THEN "break" ELSE "loop"
    /\ UNCHANGED <<drive_pages, shared_files, search_params>>
    /\ UNCHANGED nonPagingVars

\* `return results[:max_results]`
ReturnResults ==
    /\ spc = "break"
    /\ search_results' = SubSeq(search_results, 1,
                                Min(search_params.max_results, Len(search_results)))
    /\ spc' = "returned"
    /\ UNCHANGED <<drive_pages, shared_files, search_params, page_token, requests>>
    /\ UNCHANGED nonPagingVars

NextPaging ==
    \/ RequestPage
    \/ ReturnResults

SpecPaging == InitPaging /\ [][NextPaging]_vars

\* The function runs on once called: each step is taken when it can be.
SpecPagingFair == SpecPaging /\ WF_vars(NextPaging)

(***************************************************************************)
(* Claims about the paging loop.                                           *)
(***************************************************************************)
\* A page is requested only while fewer than max_results files are held.
RequestsOnlyWhileShort ==
    (requests' # requests) => Len(search_results) < search_params.max_results

\* C30: search_file_in_drive returns at most max_results files; with a
\* finite chain of nextPageToken values its loop ends, after at most one
\* request per page of the chain; no page is requested once max_results
\* files are collected.
C30_PagingBoundedAndTerminates ==
    /\ [](spc = "returned" => Len(search_results) <= search_params.max_results)
    /\ [](requests <= Len(drive_pages))
    /\ [][RequestsOnlyWhileShort]_vars
    /\ <>(spc = "returned")

\* Witness of C30: Drive's chain has three pages; the first held one file,
\* the second two, so three files were collected after two requests, the
\* third page was never requested and two files were returned.
C30_Witness ==
    /\ spc = "returned"
    /\ search_params.max_results = 2
    /\ Len(drive_pages) = 3
    /\ Len(drive_pages[1]) = 1
    /\ Len(drive_pages[2]) = 2
    /\ requests = 2
    /\ page_token = 3
    /\ search_results = <<1, 2>>

====
